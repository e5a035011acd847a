---------------------------- MODULE VirtioBlkRead ----------------------------
(***************************************************************************)
(* The read path of the legacy virtio-blk driver                           *)
(* (src/library/rustsbi/src/virtio/blk/device.rs: read_block,              *)
(* read_block_real) over the split virtqueue of virtio/queue.rs, running   *)
(* against the device that consumes the available ring and fills the used  *)
(* ring.  The driver and the device are two actors sharing the request     *)
(* header, the data buffer with its status byte, the ring indices and the  *)
(* ISR register.                                                           *)
(*                                                                         *)
(* Data abstraction: the content of sector s is s itself, so a buffer      *)
(* holding s holds exactly what the disk stores at s.  The driver always   *)
(* publishes the fixed chain with head 0 (device.rs:473), so every avail   *)
(* and used ring entry carries id 0; the entries themselves are not        *)
(* represented, only the 16-bit indices.                                   *)
(***************************************************************************)
EXTENDS Naturals

CONSTANTS
  Sectors,            \* block ids the loader may pass to read_block
  Capacity,           \* config.capacity, in sectors
  QueueSize,          \* queue_size written to QUEUE_NUM (device.rs:328)
  MaxRetries,         \* MAX_RETRIES of read_block (device.rs:445)
  MaxAttempts,        \* max_attempts of the poll loop (device.rs:553)
  NoProgressAttempt,  \* "attempt > 2000 && valid_attempts == 0" (device.rs:641)
  MaxValidAttempts,   \* "valid_attempts >= 1000" (device.rs:631)
  MaxRingRetries,     \* MAX_RING_RETRIES (device.rs:574)
  MaxReads,           \* bound: number of read_block calls of the loader
  IsrReadClears,      \* whether reading ISR_STATUS clears it
  DeviceMayFail,      \* whether the device may answer VIRTIO_BLK_S_IOERR
  NoData              \* content that is no sector's data (zeroed RAM)

ASSUME SectorsAssumption == Sectors \subseteq Nat /\ NoData \notin Sectors
ASSUME CapacityAssumption == Capacity \in Nat
ASSUME QueueSizeAssumption == QueueSize \in Nat \ {0}
ASSUME BoundsAssumption ==
  /\ MaxRetries \in Nat \ {0}
  /\ MaxAttempts \in Nat \ {0}
  /\ NoProgressAttempt \in Nat
  /\ MaxValidAttempts \in Nat \ {0}
  /\ MaxRingRetries \in Nat \ {0}
  /\ MaxReads \in Nat
ASSUME FlagsAssumption == IsrReadClears \in BOOLEAN /\ DeviceMayFail \in BOOLEAN

U16 == 65536                       \* ring indices are u16 and wrap
SectorVals == Sectors \cup {NoData}
S_OK == 0                          \* VIRTIO_BLK_S_OK (config.rs:50)
S_IOERR == 1                       \* VIRTIO_BLK_S_IOERR (config.rs:51)
PCs == {"idle", "submit", "poll", "ring", "copy"}
Errs == {"None", "Ok", "IoError", "Timeout"}
Results == [err : Errs, sector : SectorVals, data : SectorVals,
            status : {S_OK, S_IOERR}]

VARIABLES
  pc,          \* where the hart is in read_block / read_block_real
  sector,      \* block_id of the read_block call in progress
  retries,     \* retry_count of read_block
  attempt,     \* attempt of the poll loop
  valid,       \* valid_attempts of the poll loop
  ringRetry,   \* ring_retry_count of the used-ring loop
  curUsed,     \* current_used_idx, read before the buffer is copied
  reads,       \* read_block calls made so far
  ret,         \* what the last read_block call returned to the loader
  reqSector,   \* sector field of the request header at 0x80070040
  availIdx,    \* avail.idx
  lastUsed,    \* vq.last_used_idx
  usedIdx,     \* used.idx, written by the device
  dataBuf,     \* the 512 data bytes at 0x80070050, written by the device
  statusByte,  \* the status byte after them, written by the device
  isr,         \* bit 0 of ISR_STATUS
  devAvail,    \* the device's last_avail_idx
  inflight,    \* requests the device has fetched: sector -> count
  synced       \* history: no request has timed out or failed so far

driverVars == <<pc, sector, retries, attempt, valid, ringRetry, curUsed,
                reads, ret, reqSector, availIdx, lastUsed>>
deviceVars == <<usedIdx, dataBuf, statusByte, isr, devAvail, inflight>>
vars == <<driverVars, deviceVars, synced>>

-----------------------------------------------------------------------------
Init ==
  /\ pc = "idle"
  /\ sector = NoData
  /\ retries = 0 /\ attempt = 0 /\ valid = 0 /\ ringRetry = 0
  /\ curUsed = 0
  /\ reads = 0
  /\ ret = [err |-> "None", sector |-> NoData, data |-> NoData, status |-> S_OK]
  /\ reqSector = NoData
  \* Virtqueue::new (queue.rs:109-123)
  /\ availIdx = 0 /\ lastUsed = 0 /\ usedIdx = 0
  /\ dataBuf = NoData /\ statusByte = S_OK
  /\ isr = FALSE
  /\ devAvail = 0
  /\ inflight = [s \in SectorVals |-> 0]
  /\ synced = TRUE

(* read_block_real gives up with Err(Timeout); read_block retries it or,  *)
(* after MAX_RETRIES failures, returns the error.                          *)
ReadRealTimeout ==
  /\ synced' = FALSE
  /\ retries' = retries + 1
  /\ IF retries + 1 >= MaxRetries
       THEN /\ pc' = "idle"
            /\ ret' = [err |-> "Timeout", sector |-> sector, data |-> NoData,
                       status |-> S_OK]
       ELSE /\ pc' = "submit"
            /\ UNCHANGED ret

(* Mutant: the poll loop forgets to count the attempt.                    *)
EndAttemptNoCount(v) ==
  IF (attempt > NoProgressAttempt /\ v = 0) \/ attempt + 1 = MaxAttempts
    THEN /\ ReadRealTimeout
         /\ UNCHANGED <<attempt, valid>>
    ELSE /\ attempt' = attempt
         /\ valid' = v
         /\ pc' = "poll"
         /\ UNCHANGED <<retries, ret, synced>>

(* The tail of one iteration of the poll loop, with v valid attempts: the *)
(* early exit when no interrupt was seen, or the next attempt.             *)
EndAttempt(v) ==
  IF (attempt > NoProgressAttempt /\ v = 0) \/ attempt + 1 = MaxAttempts
    THEN /\ ReadRealTimeout
         /\ UNCHANGED <<attempt, valid>>
    ELSE /\ attempt' = attempt + 1
         /\ valid' = v
         /\ pc' = "poll"
         /\ UNCHANGED <<retries, ret, synced>>

-----------------------------------------------------------------------------
(* read_block: a block beyond the capacity is refused (device.rs:439).    *)
ReadOutOfRange(s) ==
  /\ pc = "idle" /\ reads < MaxReads
  /\ s >= Capacity
  /\ reads' = reads + 1
  /\ sector' = s
  /\ ret' = [err |-> "IoError", sector |-> s, data |-> NoData, status |-> S_OK]
  /\ UNCHANGED <<pc, retries, attempt, valid, ringRetry, curUsed, reqSector,
                 availIdx, lastUsed, deviceVars, synced>>

(* read_block: the call starts its retry loop (device.rs:430-447).        *)
ReadStart(s) ==
  /\ pc = "idle" /\ reads < MaxReads
  /\ s < Capacity
  /\ reads' = reads + 1
  /\ sector' = s
  /\ retries' = 0
  /\ pc' = "submit"
  /\ UNCHANGED <<attempt, valid, ringRetry, curUsed, ret, reqSector, availIdx,
                 lastUsed, deviceVars, synced>>

(* read_block_real up to the poll loop: write the header, set descriptors *)
(* 0 and 1, add_to_avail(0), fences, QUEUE_NOTIFY.  The header write and  *)
(* the publication are one step: a device fetch between them reads the    *)
(* new header, as it does after both.                                      *)
Submit ==
  /\ pc = "submit"
  /\ reqSector' = sector
  /\ availIdx' = (availIdx + 1) % U16
  /\ attempt' = 0 /\ valid' = 0
  /\ pc' = "poll"
  /\ UNCHANGED <<sector, retries, ringRetry, curUsed, reads, ret, lastUsed,
                 deviceVars, synced>>

(* Poll loop, ISR bit 0 set: read ISR again to clear it (device.rs:558-576). *)
PollIsr ==
  /\ pc = "poll" /\ isr
  /\ isr' = ~IsrReadClears
  /\ ringRetry' = 0
  /\ pc' = "ring"
  /\ UNCHANGED <<sector, retries, attempt, valid, curUsed, reads, ret,
                 reqSector, availIdx, lastUsed, usedIdx, dataBuf, statusByte,
                 devAvail, inflight, synced>>

(* Poll loop, ISR bit 0 clear: delay, early exit or next attempt           *)
(* (device.rs:561, 638-645).                                               *)
PollNoIsr ==
  /\ pc = "poll" /\ ~isr
  /\ EndAttempt(valid)
  /\ UNCHANGED <<sector, ringRetry, curUsed, reads, reqSector, availIdx,
                 lastUsed, deviceVars>>

(* Mutant: the used-ring loop bound is off by one.                         *)
RingIdleOffByOne ==
  /\ pc = "ring" /\ usedIdx = lastUsed
  /\ ringRetry' = ringRetry + 1
  /\ IF ringRetry + 1 <= MaxRingRetries
       THEN /\ UNCHANGED <<retries, attempt, valid, ret, synced>>
            /\ pc' = "ring"
       ELSE IF valid + 1 >= MaxValidAttempts
              THEN ReadRealTimeout /\ UNCHANGED <<attempt, valid>>
              ELSE EndAttempt(valid + 1)
  /\ UNCHANGED <<sector, curUsed, reads, reqSector, availIdx, lastUsed,
                 deviceVars>>

(* Used-ring loop, used.idx unchanged: retry, or leave the loop and count *)
(* a valid attempt (device.rs:618-634).                                    *)
RingIdle ==
  /\ pc = "ring" /\ usedIdx = lastUsed
  /\ ringRetry' = ringRetry + 1
  /\ IF ringRetry + 1 < MaxRingRetries
       THEN /\ UNCHANGED <<retries, attempt, valid, ret, synced>>
            /\ pc' = "ring"
       ELSE IF valid + 1 >= MaxValidAttempts
              THEN ReadRealTimeout /\ UNCHANGED <<attempt, valid>>
              ELSE EndAttempt(valid + 1)
  /\ UNCHANGED <<sector, curUsed, reads, reqSector, availIdx, lastUsed,
                 deviceVars>>

(* Used-ring loop, used.idx moved: current_used_idx is read              *)
(* (device.rs:580-583).                                                    *)
RingSeen ==
  /\ pc = "ring" /\ usedIdx # lastUsed
  /\ curUsed' = usedIdx
  /\ pc' = "copy"
  /\ UNCHANGED <<sector, retries, attempt, valid, ringRetry, reads, ret,
                 reqSector, availIdx, lastUsed, deviceVars, synced>>

(* Mutant: the copy path returns without advancing last_used_idx.         *)
CopyKeepsLastUsed ==
  /\ pc = "copy"
  /\ ret' = [err |-> "Ok", sector |-> sector, data |-> dataBuf,
             status |-> statusByte]
  /\ pc' = "idle"
  /\ UNCHANGED <<sector, retries, attempt, valid, ringRetry, curUsed, reads,
                 reqSector, availIdx, lastUsed, deviceVars, synced>>

(* The first new used element has id 0 = head; the buffer is copied out, *)
(* last_used_idx jumps to current_used_idx and read_block returns Ok       *)
(* (device.rs:586-609, 448-451).  The status byte is not read.            *)
Copy ==
  /\ pc = "copy"
  /\ ret' = [err |-> "Ok", sector |-> sector, data |-> dataBuf,
             status |-> statusByte]
  /\ lastUsed' = curUsed
  /\ pc' = "idle"
  /\ UNCHANGED <<sector, retries, attempt, valid, ringRetry, curUsed, reads,
                 reqSector, availIdx, deviceVars, synced>>

-----------------------------------------------------------------------------
(* Device: pop the next avail entry and read the request header.          *)
DeviceFetch ==
  /\ devAvail # availIdx
  /\ devAvail' = (devAvail + 1) % U16
  /\ inflight' = [inflight EXCEPT ![reqSector] = @ + 1]
  /\ UNCHANGED <<driverVars, usedIdx, dataBuf, statusByte, isr, synced>>

(* Device: complete a fetched request, in any order, writing the data and *)
(* the status byte, then the used element and used.idx, and raising ISR.  *)
DeviceComplete(s) ==
  /\ inflight[s] > 0
  /\ inflight' = [inflight EXCEPT ![s] = @ - 1]
  /\ usedIdx' = (usedIdx + 1) % U16
  /\ isr' = TRUE
  /\ \/ /\ dataBuf' = s
        /\ statusByte' = S_OK
        /\ UNCHANGED synced
     \/ /\ DeviceMayFail
        /\ statusByte' = S_IOERR
        /\ synced' = FALSE
        /\ UNCHANGED dataBuf
  /\ UNCHANGED <<driverVars, devAvail>>

-----------------------------------------------------------------------------
Driver ==
  \/ \E s \in Sectors : ReadOutOfRange(s) \/ ReadStart(s)
  \/ Submit \/ PollIsr \/ PollNoIsr \/ RingIdle \/ RingSeen \/ Copy

Device == DeviceFetch \/ \E s \in SectorVals : DeviceComplete(s)

Next == Driver \/ Device

(* The hart runs the driver with interrupts off and nothing else to do,   *)
(* so the driver is weakly fair; the device promises nothing.              *)
Spec == Init /\ [][Next]_vars /\ WF_vars(Driver)

-----------------------------------------------------------------------------
TypeOK ==
  /\ pc \in PCs
  /\ sector \in SectorVals
  /\ retries \in 0..MaxRetries
  /\ attempt \in 0..MaxAttempts
  /\ valid \in 0..MaxValidAttempts
  /\ ringRetry \in 0..MaxRingRetries
  /\ curUsed \in 0..U16 - 1
  /\ reads \in 0..MaxReads
  /\ ret \in Results
  /\ reqSector \in SectorVals
  /\ availIdx \in 0..U16 - 1 /\ lastUsed \in 0..U16 - 1
  /\ usedIdx \in 0..U16 - 1 /\ devAvail \in 0..U16 - 1
  /\ dataBuf \in SectorVals
  /\ statusByte \in {S_OK, S_IOERR}
  /\ isr \in BOOLEAN
  /\ inflight \in [SectorVals -> Nat]
  /\ synced \in BOOLEAN

(* Spec 8.1: every successful read_block returns what the disk stores at  *)
(* the sector asked for.                                                   *)
ReadReturnsDiskData == ret.err = "Ok" => ret.data = ret.sector

(* As long as no request has timed out and the device has reported no    *)
(* error, every Ok of read_block carries the requested sector's data: the *)
(* driver consumes exactly the completion of its own request, never one   *)
(* left over from an earlier call (last_used_idx bookkeeping, device.rs   *)
(* 583-616).                                                               *)
ReadCorrectWhileSynced == synced => ReadReturnsDiskData

(* Every read_block call returns, whatever the device does: the retry and *)
(* poll loops of device.rs:447-466 and 556-645 are bounded.                *)
ReadTerminates == pc # "idle" ~> pc = "idle"

=============================================================================
