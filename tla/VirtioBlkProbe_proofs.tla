------------------------- MODULE VirtioBlkProbe_proofs -------------------------
(***************************************************************************)
(* Proofs about VirtioBlkProbe: probe_all_devices adopts the first block   *)
(* device in scan order and leaves every other device in reset.            *)
(*                                                                         *)
(* Both results rest on two facts about the driver's constants, which hold *)
(* in the code (queue size 2, eight bases, eight found_devices slots):    *)
(* the queue layout for QueueNum passes allocate_queue_memory and          *)
(* Virtqueue::new, and found_devices has a slot for every base.  Without   *)
(* the first, every block device fails initialisation half-way; without   *)
(* the second, the scan can drop a block device behind empty slots.        *)
(***************************************************************************)
EXTENDS VirtioBlkProbe, TLAPS

QueueLayoutOk == AllocateQueueMemoryOk(QueueNum) /\ VirtqueueNewOk(QueueNum)
FoundFits == NBases <= MaxFound

(* The candidate loops never run past found_devices.                       *)
TryWithin == tryIdx <= Len(found) + 1
TypeInv == TypeOK /\ TryWithin

(* The scan records each base at most once, in ascending order, with its  *)
(* device id, and it records every base with the magic and id 0 or 2.     *)
ScanPhase == stage = "scan" => tryIdx = 1
ScanOver == stage # "scan" => scanIdx = NBases + 1
FoundCount == Len(found) <= scanIdx - 1
FoundSorted ==
  \A j1, j2 \in 1..Len(found) : j1 < j2 => found[j1][1] < found[j2][1]
FoundFaithful ==
  \A j \in 1..Len(found) :
    /\ found[j][1] < scanIdx /\ dev[found[j][1]].magic
    /\ found[j][2] = dev[found[j][1]].id
FoundComplete ==
  \A b \in Bases :
    b < scanIdx /\ dev[b].magic /\ dev[b].id \in {0, 2} =>
      \E j \in 1..Len(found) : found[j][1] = b

(* The block pass has passed over no block device, and the fallback pass  *)
(* runs only when found_devices holds none.                                *)
BlockPassClean == stage = "tryBlk" => \A j \in 1..tryIdx - 1 : found[j][2] # 2
NoBlockFound ==
  stage = "tryGen" \/ (stage = "done" /\ result = NoDevice) =>
    \A j \in 1..Len(found) : found[j][2] # 2
Unadopted == stage # "done" => result = NoDevice

ScanFacts == FoundCount /\ FoundSorted /\ FoundFaithful /\ FoundComplete

Inv ==
  /\ TypeInv /\ ScanPhase /\ ScanOver /\ ScanFacts /\ BlockPassClean
  /\ NoBlockFound /\ Unadopted /\ ProbeAdoptsFirstBlock
  /\ OnlyAdoptedDeviceActive

-----------------------------------------------------------------------------
(* initialize() on an empty slot or a device of another class fails at    *)
(* the DRIVER read-back and leaves STATUS and QUEUE_PFN at 0.              *)
LEMMA OutcomeNotBlock ==
  ASSUME NEW b, dev[b].id # 2
  PROVE  /\ InitOutcome(b).ok = FALSE
         /\ InitOutcome(b).status = {}
         /\ InitOutcome(b).pfn = 0
<1>1. StatusAfterWrite(dev[b], {"ACK", "DRIVER"}) = {}
  BY DEF StatusAfterWrite
<1>2. ~DriverStateOk(StatusAfterWrite(dev[b], {"ACK", "DRIVER"}))
  BY <1>1 DEF DriverStateOk
<1>3. QED
  BY <1>1, <1>2 DEF InitOutcome

(* With a queue layout the driver accepts, initialize() succeeds on every *)
(* block device, whether or not it keeps FEATURES_OK.                      *)
LEMMA OutcomeBlock ==
  ASSUME QueueLayoutOk, NEW b, dev[b].id = 2
  PROVE  InitOutcome(b).ok = TRUE
<1>1. DriverStateOk(StatusAfterWrite(dev[b], {"ACK", "DRIVER"}))
  BY DEF StatusAfterWrite, DriverStateOk
<1>2. "DRIVER_OK" \in StatusAfterWrite(dev[b], {"DRIVER_OK"})
  BY DEF StatusAfterWrite
<1>3. QED
  BY <1>1, <1>2 DEF InitOutcome, QueueLayoutOk

(* The plausibility limit and the default capacity, used without their   *)
(* values: the SMT encoding of an interval with a large literal bound     *)
(* overflows.                                                              *)
LEMMA CapacityLimitFacts ==
  /\ CapacityLimit \in Nat /\ DefaultCapacity \in Nat
  /\ 0 < CapacityLimit /\ DefaultCapacity < CapacityLimit
BY DEF CapacityLimit, DefaultCapacity

(* A capacity the config space reports is a natural number.             *)
LEMMA CapacityValues ==
  ASSUME NEW x, x \in {0} \cup Capacities
  PROVE  x \in Nat
BY CapacitiesAssumption

(* read_configuration_simple's clamp yields a plausible capacity.         *)
LEMMA ConfigCapacityBound ==
  ASSUME NEW c \in Nat
  PROVE  ConfigCapacity(c) \in 0..CapacityLimit - 1
<1>1. CASE c > 0 /\ c < CapacityLimit
  BY <1>1, CapacityLimitFacts DEF ConfigCapacity
<1>2. CASE ~(c > 0 /\ c < CapacityLimit)
  BY <1>2, CapacityLimitFacts DEF ConfigCapacity
<1>3. QED
  BY <1>1, <1>2

(* What initialize() leaves in the registers is a register value.         *)
LEMMA OutcomeTyped ==
  ASSUME NEW b \in Bases, dev \in [Bases -> Devices]
  PROVE  /\ InitOutcome(b).status \in SUBSET StatusBits
         /\ InitOutcome(b).pfn \in {0, QueuePfn}
         /\ InitOutcome(b).cap \in 0..CapacityLimit - 1
         /\ InitOutcome(b).ok \in BOOLEAN
<1> DEFINE d == dev[b]
           afterDriver == StatusAfterWrite(d, {"ACK", "DRIVER"})
           afterFeatures == FeaturesStatus(d, afterDriver)
           final == StatusAfterWrite(d, {"DRIVER_OK"})
<1>1. \A v \in SUBSET StatusBits : StatusAfterWrite(d, v) \in SUBSET StatusBits
  BY DEF StatusAfterWrite
<1>2. /\ afterDriver \in SUBSET StatusBits /\ final \in SUBSET StatusBits
      /\ afterFeatures \in SUBSET StatusBits
  BY <1>1 DEF FeaturesStatus, StatusBits
<1>3. d \in Devices
  OBVIOUS
<1>4. d.capacity \in Nat
  <2>1. d.capacity \in {0} \cup Capacities
    BY <1>3 DEF Devices
  <2>2. QED
    BY <2>1, CapacityValues
<1>5. ConfigCapacity(d.capacity) \in 0..CapacityLimit - 1
  BY <1>4, ConfigCapacityBound
<1>6. QueuePfnRead(d) \in {0, QueuePfn}
  BY DEF QueuePfnRead
<1>7. 0 \in 0..CapacityLimit - 1
  BY CapacityLimitFacts
<1>8. CASE ~DriverStateOk(afterDriver)
  BY <1>2, <1>7, <1>8 DEF InitOutcome
<1>9. CASE DriverStateOk(afterDriver) /\ ~AllocateQueueMemoryOk(QueueNum)
  BY <1>2, <1>7, <1>9 DEF InitOutcome
<1>10. CASE DriverStateOk(afterDriver) /\ AllocateQueueMemoryOk(QueueNum)
            /\ ~VirtqueueNewOk(QueueNum)
  BY <1>2, <1>6, <1>7, <1>10 DEF InitOutcome
<1>11. CASE DriverStateOk(afterDriver) /\ AllocateQueueMemoryOk(QueueNum)
            /\ VirtqueueNewOk(QueueNum)
  BY <1>2, <1>5, <1>6, <1>11 DEF InitOutcome
<1>12. QED
  BY <1>8, <1>9, <1>10, <1>11

(* The base FirstBlockBase names: the least block device, or NoDevice.    *)
LEMMA FirstBlockIs ==
  ASSUME NEW b \in Bases, dev[b].magic, dev[b].id = 2,
         \A c \in Bases : dev[c].magic /\ dev[c].id = 2 => b <= c
  PROVE  FirstBlockBase = b
BY DEF FirstBlockBase, Bases

LEMMA NoFirstBlock ==
  ASSUME \A c \in Bases : ~(dev[c].magic /\ dev[c].id = 2)
  PROVE  FirstBlockBase = NoDevice
BY DEF FirstBlockBase

-----------------------------------------------------------------------------
(* Type correctness, for every value of the constants.                     *)
LEMMA TypeInit == Init => TypeInv
<1> SUFFICES ASSUME Init PROVE TypeInv
  OBVIOUS
<1> USE NBasesAssumption, FoundAssumption
<1>1. found \in Seq(Bases \X {0, 2}) /\ Len(found) = 0
  BY DEF Init
<1>2. status \in [Bases -> SUBSET StatusBits] /\ pfn \in [Bases -> {0, QueuePfn}]
  BY DEF Init
<1>3. capacity \in 0..CapacityLimit - 1
  BY CapacityLimitFacts DEF Init
<1>4. QED
  BY <1>1, <1>2, <1>3 DEF Init, TypeInv, TypeOK, TryWithin

(* One iteration of the scan loop records at most one base, within the    *)
(* capacity of found_devices.                                              *)
LEMMA ScanType ==
  ASSUME TypeInv, Scan
  PROVE  TypeInv'
<1> USE NBasesAssumption, FoundAssumption
<1>1. UNCHANGED <<dev, tryIdx, result, status, pfn, capacity>>
  BY DEF Scan
<1>2. CASE MoreBases(scanIdx)
  <2> DEFINE e == <<scanIdx, dev[scanIdx].id>>
  <2>1. scanIdx \in Bases /\ scanIdx' = scanIdx + 1 /\ stage' = stage
    BY <1>2 DEF Scan, MoreBases, TypeInv, TypeOK, Bases
  <2>2. CASE dev[scanIdx].magic /\ dev[scanIdx].id \in {0, 2}
             /\ Len(found) < MaxFound
    <3>1. found' = Append(found, e)
      BY <1>2, <2>2 DEF Scan
    <3>2. e \in Bases \X {0, 2}
      BY <2>1, <2>2
    <3>3. found' \in Seq(Bases \X {0, 2}) /\ Len(found') = Len(found) + 1
      BY <3>1, <3>2 DEF TypeInv, TypeOK
    <3>4. QED
      BY <1>1, <2>1, <2>2, <3>3 DEF TypeInv, TypeOK, TryWithin, Bases
  <2>3. CASE ~(dev[scanIdx].magic /\ dev[scanIdx].id \in {0, 2}
               /\ Len(found) < MaxFound)
    <3>1. found' = found
      BY <1>2, <2>3 DEF Scan
    <3>2. QED
      BY <1>1, <2>1, <3>1 DEF TypeInv, TypeOK, TryWithin, Bases
  <2>4. QED
    BY <2>2, <2>3
<1>3. CASE ~MoreBases(scanIdx)
  BY <1>1, <1>3 DEF Scan, TypeInv, TypeOK, TryWithin
<1>4. QED
  BY <1>2, <1>3

(* One iteration of a candidate loop: the registers initialize() leaves   *)
(* and the capacity it reads are register values, and the loop index      *)
(* moves on within found_devices.                                          *)
LEMMA TryType ==
  ASSUME TypeInv, NEW wanted, NEW after \in {"tryGen", "done"},
         TryCandidate(wanted, after)
  PROVE  TypeInv'
<1> USE FoundAssumption
<1>1. UNCHANGED <<dev, scanIdx, found>>
  BY DEF TryCandidate
<1>2. CASE tryIdx <= Len(found)
  <2> DEFINE b == found[tryIdx][1]
             o == InitOutcome(b)
  <2>1. tryIdx \in 1..Len(found) /\ Len(found) <= MaxFound
    BY <1>2 DEF TypeInv, TypeOK
  <2>2. b \in Bases
    BY <2>1 DEF TypeInv, TypeOK
  <2>3. /\ o.status \in SUBSET StatusBits /\ o.pfn \in {0, QueuePfn}
        /\ o.cap \in 0..CapacityLimit - 1
    BY <2>2, OutcomeTyped DEF TypeInv, TypeOK
  <2>4. /\ tryIdx' = tryIdx + 1
        /\ status' \in [Bases -> SUBSET StatusBits]
        /\ pfn' \in [Bases -> {0, QueuePfn}]
        /\ result' \in Bases \cup {NoDevice}
        /\ capacity' \in 0..CapacityLimit - 1
        /\ stage' \in {stage, "done"}
    BY <1>2, <2>2, <2>3 DEF TryCandidate, Adopt, TypeInv, TypeOK
  <2>5. QED
    BY <1>1, <2>1, <2>4 DEF TypeInv, TypeOK, TryWithin
<1>3. CASE ~(tryIdx <= Len(found))
  BY <1>1, <1>3 DEF TryCandidate, TypeInv, TypeOK, TryWithin
<1>4. QED
  BY <1>2, <1>3

LEMMA TypeStep == TypeInv /\ [Next]_vars => TypeInv'
<1> SUFFICES ASSUME TypeInv, [Next]_vars PROVE TypeInv'
  OBVIOUS
<1>1. CASE Scan
  BY <1>1, ScanType
<1>2. CASE TryBlock
  BY <1>2, TryType DEF TryBlock
<1>3. CASE TryGeneric
  BY <1>3, TryType DEF TryGeneric
<1>4. CASE UNCHANGED vars
  BY <1>4 DEF vars, TypeInv, TypeOK, TryWithin
<1>5. QED
  BY <1>1, <1>2, <1>3, <1>4 DEF Next

(* The probe's state stays well typed for any number of bases, any size   *)
(* of found_devices and any queue size: found_devices never overflows and *)
(* the candidate loops never index past it.                                *)
THEOREM TypeCorrect == Spec => []TypeOK
<1>1. Spec => []TypeInv
  BY TypeInit, TypeStep, PTL DEF Spec
<1>2. QED
  BY <1>1, PTL DEF TypeInv

-----------------------------------------------------------------------------
(* The probe's invariant.                                                  *)
LEMMA InvInit == Init => Inv
<1> SUFFICES ASSUME Init PROVE Inv
  OBVIOUS
<1>1. TypeInv
  BY TypeInit
<1>2. ScanFacts
  BY DEF Init, ScanFacts, FoundCount, FoundSorted, FoundFaithful,
         FoundComplete, Bases
<1>3. QED
  BY <1>1, <1>2 DEF Init, Inv, ScanPhase, ScanOver, BlockPassClean,
                    NoBlockFound, Unadopted, ProbeAdoptsFirstBlock,
                    OnlyAdoptedDeviceActive

(* A scan iteration that records the base: it is larger than every base   *)
(* recorded so far, so the record stays sorted and complete.               *)
LEMMA ScanRecord ==
  ASSUME TypeInv, ScanFacts, scanIdx \in Bases,
         dev[scanIdx].magic, dev[scanIdx].id \in {0, 2},
         found' = Append(found, <<scanIdx, dev[scanIdx].id>>),
         scanIdx' = scanIdx + 1, dev' = dev
  PROVE  ScanFacts'
<1> DEFINE e == <<scanIdx, dev[scanIdx].id>>
           n == Len(found)
<1>1. /\ Len(found') = n + 1 /\ found'[n + 1] = e
      /\ \A j \in 1..n : found'[j] = found[j]
  BY DEF TypeInv, TypeOK
<1>2. FoundCount'
  BY <1>1 DEF ScanFacts, FoundCount, TypeInv, TypeOK, Bases
<1>3. FoundSorted'
  <2> SUFFICES ASSUME NEW j1 \in 1..n + 1, NEW j2 \in 1..n + 1, j1 < j2
               PROVE  found'[j1][1] < found'[j2][1]
    BY <1>1 DEF FoundSorted
  <2>1. CASE j2 <= n
    <3>1. j1 \in 1..n /\ j2 \in 1..n
      BY <2>1
    <3>2. found'[j1] = found[j1] /\ found'[j2] = found[j2]
      BY <1>1, <3>1
    <3>3. found[j1][1] < found[j2][1]
      BY <3>1 DEF ScanFacts, FoundSorted
    <3>4. QED
      BY <3>2, <3>3
  <2>2. CASE j2 = n + 1
    <3>1. j1 \in 1..n
      BY <2>2
    <3>2. found[j1][1] < scanIdx
      BY <3>1 DEF ScanFacts, FoundFaithful
    <3>3. QED
      BY <1>1, <2>2, <3>1, <3>2
  <2>3. QED
    BY <2>1, <2>2
<1>4. FoundFaithful'
  BY <1>1 DEF ScanFacts, FoundFaithful, TypeInv, TypeOK, Bases
<1>5. FoundComplete'
  <2> SUFFICES ASSUME NEW b \in Bases, b < scanIdx + 1, dev[b].magic,
                      dev[b].id \in {0, 2}
               PROVE  \E j \in 1..Len(found') : found'[j][1] = b
    BY DEF FoundComplete
  <2>1. CASE b < scanIdx
    BY <1>1, <2>1 DEF ScanFacts, FoundComplete, TypeInv, TypeOK
  <2>2. CASE b = scanIdx
    BY <1>1, <2>2 DEF TypeInv, TypeOK
  <2>3. QED
    BY <2>1, <2>2 DEF Bases
<1>6. QED
  BY <1>2, <1>3, <1>4, <1>5 DEF ScanFacts

(* A scan iteration that skips the base: with a slot for every base, the  *)
(* base skipped is not a candidate.                                        *)
LEMMA ScanSkip ==
  ASSUME TypeInv, ScanFacts, scanIdx \in Bases,
         ~(dev[scanIdx].magic /\ dev[scanIdx].id \in {0, 2}),
         found' = found, scanIdx' = scanIdx + 1, dev' = dev
  PROVE  ScanFacts'
<1>1. FoundComplete'
  <2> SUFFICES ASSUME NEW b \in Bases, b < scanIdx + 1, dev[b].magic,
                      dev[b].id \in {0, 2}
               PROVE  \E j \in 1..Len(found') : found'[j][1] = b
    BY DEF FoundComplete
  <2>1. b # scanIdx
    OBVIOUS
  <2>2. b < scanIdx
    BY <2>1 DEF Bases
  <2>3. QED
    BY <2>2 DEF ScanFacts, FoundComplete
<1>2. QED
  BY <1>1 DEF ScanFacts, FoundCount, FoundSorted, FoundFaithful, TypeInv,
              TypeOK, Bases

LEMMA ScanInv ==
  ASSUME FoundFits, Inv, Scan
  PROVE  Inv'
<1>1. TypeInv'
  BY ScanType DEF Inv
<1>2. UNCHANGED <<dev, tryIdx, result, status, pfn, capacity>>
  BY DEF Scan
<1>3. CASE MoreBases(scanIdx)
  <2>1. /\ stage = "scan" /\ stage' = "scan" /\ scanIdx' = scanIdx + 1
    BY <1>3 DEF Scan
  <2>2. scanIdx \in Bases
    BY <1>3 DEF MoreBases, Inv, TypeInv, TypeOK, Bases
  <2>3. Len(found) < MaxFound
    <3>1. Len(found) <= scanIdx - 1
      BY DEF Inv, ScanFacts, FoundCount
    <3>2. QED
      BY <2>2, <3>1, FoundAssumption, NBasesAssumption DEF FoundFits, Bases
  <2>4. ScanFacts'
    <3>1. CASE dev[scanIdx].magic /\ dev[scanIdx].id \in {0, 2}
      <4>1. found' = Append(found, <<scanIdx, dev[scanIdx].id>>)
        BY <1>3, <2>3, <3>1 DEF Scan
      <4>2. QED
        BY <1>2, <2>1, <2>2, <3>1, <4>1, ScanRecord DEF Inv
    <3>2. CASE ~(dev[scanIdx].magic /\ dev[scanIdx].id \in {0, 2})
      <4>1. found' = found
        BY <1>3, <3>2 DEF Scan
      <4>2. QED
        BY <1>2, <2>1, <2>2, <3>2, <4>1, ScanSkip DEF Inv
    <3>3. QED
      BY <3>1, <3>2
  <2>5. QED
    BY <1>1, <1>2, <2>1, <2>4 DEF Inv, ScanPhase, ScanOver, BlockPassClean,
       NoBlockFound, Unadopted, ProbeAdoptsFirstBlock, OnlyAdoptedDeviceActive
<1>4. CASE ~MoreBases(scanIdx)
  <2>1. /\ stage = "scan" /\ stage' = "tryBlk" /\ scanIdx' = scanIdx
        /\ found' = found
    BY <1>4 DEF Scan
  <2>2. scanIdx = NBases + 1
    BY <1>4, NBasesAssumption DEF MoreBases, Inv, TypeInv, TypeOK
  <2>3. tryIdx = 1
    BY <2>1 DEF Inv, ScanPhase
  <2>4. ScanFacts'
    BY <1>2, <2>1 DEF Inv, ScanFacts, FoundCount, FoundSorted, FoundFaithful,
                      FoundComplete
  <2>5. BlockPassClean' /\ ProbeAdoptsFirstBlock' /\ NoBlockFound'
    BY <1>2, <2>1, <2>3 DEF BlockPassClean, ProbeAdoptsFirstBlock, NoBlockFound
  <2>6. QED
    BY <1>1, <1>2, <2>1, <2>2, <2>4, <2>5 DEF Inv, ScanPhase, ScanOver,
       Unadopted, OnlyAdoptedDeviceActive
<1>5. QED
  BY <1>3, <1>4

(* The candidate loops leave the scan's record alone.                     *)
LEMMA TryKeepsScan ==
  ASSUME Inv, NEW wanted, NEW after \in {"tryGen", "done"},
         stage \in {"tryBlk", "tryGen"}, TryCandidate(wanted, after)
  PROVE  ScanPhase' /\ ScanOver' /\ ScanFacts'
<1>1. UNCHANGED <<dev, scanIdx, found>> /\ stage' \in {stage, "done", after}
  BY DEF TryCandidate, Adopt
<1>2. QED
  BY <1>1 DEF Inv, ScanPhase, ScanOver, ScanFacts, FoundCount, FoundSorted,
              FoundFaithful, FoundComplete

(* When the block pass reaches a block device, that device is the first   *)
(* one on the bus: every block device is in found_devices, sorted by base, *)
(* and the pass has met none before it.                                    *)
LEMMA AdoptFirst ==
  ASSUME Inv, stage = "tryBlk", tryIdx \in 1..Len(found), found[tryIdx][2] = 2
  PROVE  FirstBlockBase = found[tryIdx][1]
<1> DEFINE b == found[tryIdx][1]
<1>1. b \in Bases /\ dev[b].magic /\ dev[b].id = 2
  BY DEF Inv, TypeInv, TypeOK, ScanFacts, FoundFaithful
<1>2. scanIdx = NBases + 1
  BY DEF Inv, ScanOver
<1>3. ASSUME NEW c \in Bases, dev[c].magic, dev[c].id = 2
      PROVE  b <= c
  <2>1. c < scanIdx
    BY <1>2, NBasesAssumption DEF Bases
  <2>2. PICK j \in 1..Len(found) : found[j][1] = c
    BY <1>3, <2>1 DEF Inv, ScanFacts, FoundComplete
  <2>3. found[j][2] = 2
    BY <1>3, <2>2 DEF Inv, ScanFacts, FoundFaithful
  <2>4. ~(j \in 1..tryIdx - 1)
    BY <2>3 DEF Inv, BlockPassClean
  <2>5. CASE j = tryIdx
    BY <2>2, <2>5 DEF Bases
  <2>6. CASE j # tryIdx
    <3>1. tryIdx < j
      BY <2>4, <2>6
    <3>2. found[tryIdx][1] < found[j][1]
      BY <3>1 DEF Inv, ScanFacts, FoundSorted
    <3>3. QED
      BY <2>2, <3>2, <1>1 DEF Bases
  <2>7. QED
    BY <2>5, <2>6
<1>4. QED
  BY <1>1, <1>3, FirstBlockIs

(* When the fallback pass is over, the bus holds no block device.         *)
LEMMA NoBlockOnBus ==
  ASSUME Inv, stage = "tryGen"
  PROVE  \A c \in Bases : ~(dev[c].magic /\ dev[c].id = 2)
<1> SUFFICES ASSUME NEW c \in Bases, dev[c].magic, dev[c].id = 2
             PROVE  FALSE
  OBVIOUS
<1>1. c < scanIdx
  BY NBasesAssumption DEF Inv, ScanOver, Bases
<1>2. PICK j \in 1..Len(found) : found[j][1] = c
  BY <1>1 DEF Inv, ScanFacts, FoundComplete
<1>3. found[j][2] = 2
  BY <1>2 DEF Inv, ScanFacts, FoundFaithful
<1>4. QED
  BY <1>2, <1>3 DEF Inv, NoBlockFound

(* An iteration of the block pass: a block device is initialised, which  *)
(* succeeds, and adopted; any other candidate is passed over; past the end *)
(* the fallback pass begins.                                               *)
LEMMA TryBlockInv ==
  ASSUME QueueLayoutOk, Inv, TryBlock
  PROVE  Inv'
<1>1. TypeInv'
  BY TryType DEF TryBlock, Inv
<1>2. ScanPhase' /\ ScanOver' /\ ScanFacts'
  BY TryKeepsScan DEF TryBlock
<1>3. stage = "tryBlk" /\ result = NoDevice /\ UNCHANGED <<dev, found>>
  BY DEF TryBlock, TryCandidate, Inv, Unadopted
<1>4. CASE tryIdx <= Len(found) /\ found[tryIdx][2] = 2
  <2> DEFINE b == found[tryIdx][1]
             o == InitOutcome(b)
  <2>1. tryIdx \in 1..Len(found) /\ b \in Bases /\ dev[b].id = 2
    BY <1>4 DEF Inv, TypeInv, TypeOK, ScanFacts, FoundFaithful
  <2>2. o.ok = TRUE
    BY <2>1, OutcomeBlock
  <2>3. /\ stage' = "done" /\ result' = b
        /\ status' = [status EXCEPT ![b] = o.status]
        /\ pfn' = [pfn EXCEPT ![b] = o.pfn]
    BY <1>4, <2>2 DEF TryBlock, TryCandidate, Adopt
  <2>4. b # NoDevice
    BY <2>1, NoDeviceAssumption DEF Bases
  <2>5. ProbeAdoptsFirstBlock'
    BY <1>3, <1>4, <2>1, <2>3, AdoptFirst DEF ProbeAdoptsFirstBlock, FirstBlockBase
  <2>6. OnlyAdoptedDeviceActive'
    <3> SUFFICES ASSUME NEW x \in Bases, x # b,
                        status'[x] # {} \/ pfn'[x] # 0
                 PROVE  FALSE
      BY <2>3 DEF OnlyAdoptedDeviceActive
    <3>1. status[x] # {} \/ pfn[x] # 0
      BY <2>3 DEF Inv, TypeInv, TypeOK
    <3>2. x = NoDevice
      BY <1>3, <3>1 DEF Inv, OnlyAdoptedDeviceActive
    <3>3. QED
      BY <3>2, NoDeviceAssumption DEF Bases
  <2>7. QED
    BY <1>1, <1>2, <2>3, <2>4, <2>5, <2>6
       DEF Inv, BlockPassClean, NoBlockFound, Unadopted
<1>5. CASE tryIdx <= Len(found) /\ found[tryIdx][2] # 2
  <2>1. /\ tryIdx' = tryIdx + 1
        /\ UNCHANGED <<status, pfn, stage, result, capacity>>
    BY <1>5 DEF TryBlock, TryCandidate
  <2>2. BlockPassClean'
    BY <1>3, <1>5, <2>1 DEF Inv, BlockPassClean, TypeInv, TypeOK
  <2>3. QED
    BY <1>1, <1>2, <1>3, <2>1, <2>2
       DEF Inv, NoBlockFound, Unadopted, ProbeAdoptsFirstBlock,
           OnlyAdoptedDeviceActive
<1>6. CASE ~(tryIdx <= Len(found))
  <2>1. /\ stage' = "tryGen" /\ tryIdx' = 1
        /\ UNCHANGED <<status, pfn, result, capacity>>
    BY <1>6 DEF TryBlock, TryCandidate
  <2>2. tryIdx = Len(found) + 1
    BY <1>6 DEF Inv, TypeInv, TypeOK, TryWithin
  <2>3. NoBlockFound'
    BY <1>3, <2>1, <2>2 DEF Inv, BlockPassClean, NoBlockFound
  <2>4. QED
    BY <1>1, <1>2, <1>3, <2>1, <2>3
       DEF Inv, BlockPassClean, Unadopted, ProbeAdoptsFirstBlock,
           OnlyAdoptedDeviceActive
<1>7. QED
  BY <1>4, <1>5, <1>6

(* An iteration of the fallback pass: an empty slot is initialised, which *)
(* fails at once and leaves it in reset; past the end the probe returns    *)
(* None, and there is no block device on the bus.                          *)
LEMMA TryGenericInv ==
  ASSUME Inv, TryGeneric
  PROVE  Inv'
<1>1. TypeInv'
  BY TryType DEF TryGeneric, Inv
<1>2. ScanPhase' /\ ScanOver' /\ ScanFacts'
  BY TryKeepsScan DEF TryGeneric
<1>3. stage = "tryGen" /\ result = NoDevice /\ UNCHANGED <<dev, found>>
  BY DEF TryGeneric, TryCandidate, Inv, Unadopted
<1>4. CASE tryIdx <= Len(found) /\ found[tryIdx][2] = 0
  <2> DEFINE b == found[tryIdx][1]
             o == InitOutcome(b)
  <2>1. b \in Bases /\ dev[b].id = 0
    BY <1>4 DEF Inv, TypeInv, TypeOK, ScanFacts, FoundFaithful
  <2>2. o.ok = FALSE /\ o.status = {} /\ o.pfn = 0
    <3>1. dev[b].id # 2
      BY <2>1
    <3>2. QED
      BY <3>1, OutcomeNotBlock
  <2>3. /\ status' = [status EXCEPT ![b] = {}]
        /\ pfn' = [pfn EXCEPT ![b] = 0]
        /\ UNCHANGED <<stage, result, capacity>>
    BY <1>4, <2>2 DEF TryGeneric, TryCandidate
  <2>4. OnlyAdoptedDeviceActive'
    BY <1>3, <2>1, <2>3 DEF Inv, TypeInv, TypeOK, OnlyAdoptedDeviceActive
  <2>5. QED
    BY <1>1, <1>2, <1>3, <2>3, <2>4
       DEF Inv, BlockPassClean, NoBlockFound, Unadopted, ProbeAdoptsFirstBlock
<1>5. CASE tryIdx <= Len(found) /\ found[tryIdx][2] # 0
  <2>1. UNCHANGED <<status, pfn, stage, result, capacity>>
    BY <1>5 DEF TryGeneric, TryCandidate
  <2>2. QED
    BY <1>1, <1>2, <1>3, <2>1
       DEF Inv, BlockPassClean, NoBlockFound, Unadopted, ProbeAdoptsFirstBlock,
           OnlyAdoptedDeviceActive
<1>6. CASE ~(tryIdx <= Len(found))
  <2>1. /\ stage' = "done" /\ UNCHANGED <<status, pfn, result, capacity>>
    BY <1>6 DEF TryGeneric, TryCandidate
  <2>2. FirstBlockBase' = NoDevice
    <3>1. \A c \in Bases : ~(dev[c].magic /\ dev[c].id = 2)
      BY <1>3, NoBlockOnBus
    <3>2. QED
      BY <1>3, <3>1, NoFirstBlock DEF FirstBlockBase
  <2>3. QED
    BY <1>1, <1>2, <1>3, <2>1, <2>2
       DEF Inv, BlockPassClean, NoBlockFound, Unadopted, ProbeAdoptsFirstBlock,
           OnlyAdoptedDeviceActive
<1>7. QED
  BY <1>4, <1>5, <1>6

LEMMA InvStep ==
  ASSUME QueueLayoutOk, FoundFits
  PROVE  Inv /\ [Next]_vars => Inv'
<1> SUFFICES ASSUME Inv, [Next]_vars PROVE Inv'
  OBVIOUS
<1>1. CASE UNCHANGED vars
  BY <1>1 DEF vars, Inv, TypeInv, TypeOK, TryWithin, ScanPhase, ScanOver,
              ScanFacts, FoundCount, FoundSorted, FoundFaithful, FoundComplete,
              BlockPassClean, NoBlockFound, Unadopted, ProbeAdoptsFirstBlock,
              FirstBlockBase, OnlyAdoptedDeviceActive
<1>2. QED
  BY <1>1, ScanInv, TryBlockInv, TryGenericInv DEF Next

THEOREM InvHolds ==
  ASSUME QueueLayoutOk, FoundFits
  PROVE  Spec => []Inv
BY InvInit, InvStep, PTL DEF Spec

(* ProbeAdoptsFirstBlock for any number of bases and any capacities, with *)
(* a queue layout the driver accepts and a found_devices slot per base:   *)
(* probe_all_devices returns the first block device in scan order, or     *)
(* None when there is none, and never an empty slot.                       *)
THEOREM FirstBlockAdopted ==
  ASSUME QueueLayoutOk, FoundFits
  PROVE  Spec => []ProbeAdoptsFirstBlock
BY InvHolds, PTL DEF Inv

(* OnlyAdoptedDeviceActive under the same hypotheses: every device but    *)
(* the one probe_all_devices returns is left with STATUS and QUEUE_PFN at  *)
(* 0, the empty slots the fallback pass initialises included.              *)
THEOREM OthersStayReset ==
  ASSUME QueueLayoutOk, FoundFits
  PROVE  Spec => []OnlyAdoptedDeviceActive
BY InvHolds, PTL DEF Inv

=============================================================================
