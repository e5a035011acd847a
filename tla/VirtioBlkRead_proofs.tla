------------------------ MODULE VirtioBlkRead_proofs ------------------------
(***************************************************************************)
(* Proofs about the virtio-blk read path of VirtioBlkRead, for every value *)
(* of its constants.                                                       *)
(***************************************************************************)
EXTENDS VirtioBlkRead, TLAPS

(* The loop counters of read_block and read_block_real stay below their  *)
(* bounds while the loop that owns them runs: the retry count while a     *)
(* read_block call is in progress, the attempt count inside the poll loop *)
(* and the ring retry count inside the used-ring loop.                    *)
LoopBounds ==
  /\ pc # "idle" => retries < MaxRetries
  /\ pc \in {"poll", "ring"} => attempt < MaxAttempts
  /\ pc = "ring" => ringRetry < MaxRingRetries

TypeInv == TypeOK /\ LoopBounds

(* The conjuncts of TypeOK about numbers, sets and records, apart from the *)
(* two Boolean ones, which the provers handle separately.                 *)
TypeData ==
  /\ pc \in PCs
  /\ sector \in SectorVals
  /\ retries \in 0..MaxRetries
  /\ attempt \in 0..MaxAttempts
  /\ valid \in 0..MaxValidAttempts
  /\ ringRetry \in 0..MaxRingRetries
  /\ curUsed \in 0..U16 - 1
  /\ reads \in 0..MaxReads
  /\ ret \in Results
  /\ reqSector \in SectorVals
  /\ availIdx \in 0..U16 - 1 /\ lastUsed \in 0..U16 - 1
  /\ usedIdx \in 0..U16 - 1 /\ devAvail \in 0..U16 - 1
  /\ dataBuf \in SectorVals
  /\ statusByte \in {S_OK, S_IOERR}
  /\ inflight \in [SectorVals -> Nat]

TypeBool == isr \in BOOLEAN /\ synced \in BOOLEAN

USE SectorsAssumption, CapacityAssumption, BoundsAssumption, FlagsAssumption

(* The ring size 2^16 is a positive natural number.                       *)
LEMMA U16Pos == U16 \in Nat \ {0}
  BY DEF U16

(* Incrementing a u16 ring index modulo 2^16 gives a u16 index.          *)
LEMMA WrapInc == ASSUME NEW x \in 0..U16 - 1 PROVE (x + 1) % U16 \in 0..U16 - 1
<1>1. x + 1 \in Nat
  BY U16Pos
<1>2. ASSUME NEW y \in Nat, NEW n \in Nat \ {0} PROVE y % n \in 0..n - 1
  BY SMT
<1>3. QED
  BY <1>1, <1>2, U16Pos

(* A result record built from a sector value and an error code is typed. *)
LEMMA ResultType ==
  ASSUME NEW e \in Errs, NEW s \in SectorVals, NEW d \in SectorVals,
         NEW st \in {S_OK, S_IOERR}
  PROVE  [err |-> e, sector |-> s, data |-> d, status |-> st] \in Results
  BY DEF Results

(* The constant pieces of the results read_block returns are typed.      *)
LEMMA ResultConsts ==
  /\ {"None", "Ok", "IoError", "Timeout"} \subseteq Errs
  /\ NoData \in SectorVals /\ Sectors \subseteq SectorVals
  /\ S_OK \in {S_OK, S_IOERR} /\ S_IOERR \in {S_OK, S_IOERR}
  BY DEF Errs, SectorVals

(* Adding or removing one fetched request keeps the in-flight counts     *)
(* natural numbers.                                                        *)
LEMMA InflightInc ==
  ASSUME NEW f \in [SectorVals -> Nat], NEW s \in SectorVals
  PROVE  [f EXCEPT ![s] = @ + 1] \in [SectorVals -> Nat]
  OBVIOUS

LEMMA InflightDec ==
  ASSUME NEW f \in [SectorVals -> Nat], NEW s \in SectorVals, f[s] > 0
  PROVE  [f EXCEPT ![s] = @ - 1] \in [SectorVals -> Nat]
  OBVIOUS

(* TypeOK is the conjunction of its data part and its Boolean part.      *)
LEMMA TypeSplit == TypeOK <=> TypeData /\ TypeBool
  BY Zenon DEF TypeOK, TypeData, TypeBool

LEMMA TypeInit == Init => TypeInv
<1> SUFFICES ASSUME Init PROVE TypeInv
  OBVIOUS
<1>1. ret \in Results
  <2>1. "None" \in Errs /\ NoData \in SectorVals /\ S_OK \in {S_OK, S_IOERR}
    BY ResultConsts
  <2>2. QED
    BY <2>1, ResultType, Zenon DEF Init
<1>2. inflight \in [SectorVals -> Nat]
  BY DEF Init
<1>3. /\ curUsed \in 0..U16 - 1 /\ availIdx \in 0..U16 - 1
      /\ lastUsed \in 0..U16 - 1 /\ usedIdx \in 0..U16 - 1
      /\ devAvail \in 0..U16 - 1
  BY U16Pos DEF Init
<1>4. /\ retries \in 0..MaxRetries /\ attempt \in 0..MaxAttempts
      /\ valid \in 0..MaxValidAttempts /\ ringRetry \in 0..MaxRingRetries
      /\ reads \in 0..MaxReads
  BY DEF Init
<1>5. /\ sector \in SectorVals /\ reqSector \in SectorVals
      /\ dataBuf \in SectorVals /\ statusByte \in {S_OK, S_IOERR}
  BY ResultConsts, Zenon DEF Init
<1>8. pc \in PCs
  BY DEF Init, PCs
<1>9. isr \in BOOLEAN /\ synced \in BOOLEAN
  BY Zenon DEF Init
<1>6. LoopBounds
  BY DEF Init, LoopBounds
<1>7. QED
  BY <1>1, <1>2, <1>3, <1>4, <1>5, <1>6, <1>8, <1>9 DEF TypeInv, TypeOK

LEMMA OutOfRangeType == ASSUME TypeInv, NEW s \in Sectors, ReadOutOfRange(s) PROVE TypeInv'
<1>0. ret' \in Results
  <2>1. "IoError" \in Errs /\ s \in SectorVals /\ NoData \in SectorVals
        /\ S_OK \in {S_OK, S_IOERR}
    BY ResultConsts
  <2>2. QED
    BY <2>1, ResultType, Zenon DEF ReadOutOfRange
<1>1. TypeData'
  BY <1>0, ResultConsts DEF TypeInv, TypeOK, TypeData, ReadOutOfRange, deviceVars
<1>2. TypeBool'
  BY Zenon DEF TypeInv, TypeOK, TypeBool, ReadOutOfRange, deviceVars
<1>3. LoopBounds'
  BY DEF TypeInv, TypeOK, LoopBounds, ReadOutOfRange
<1>4. QED
  BY <1>1, <1>2, <1>3, Zenon DEF TypeInv, TypeOK, TypeData, TypeBool

LEMMA StartType == ASSUME TypeInv, NEW s \in Sectors, ReadStart(s) PROVE TypeInv'
<1>1. TypeData'
  BY ResultConsts DEF TypeInv, TypeOK, TypeData, ReadStart, deviceVars, PCs
<1>2. TypeBool'
  BY Zenon DEF TypeInv, TypeOK, TypeBool, ReadStart, deviceVars
<1>3. LoopBounds'
  BY DEF TypeInv, TypeOK, LoopBounds, ReadStart
<1>4. QED
  BY <1>1, <1>2, <1>3, Zenon DEF TypeInv, TypeOK, TypeData, TypeBool

LEMMA SubmitType == ASSUME TypeInv, Submit PROVE TypeInv'
<1>1. TypeData'
  BY WrapInc DEF TypeInv, TypeOK, TypeData, Submit, deviceVars, PCs
<1>2. TypeBool'
  BY Zenon DEF TypeInv, TypeOK, TypeBool, Submit, deviceVars
<1>3. LoopBounds'
  BY DEF TypeInv, TypeOK, LoopBounds, Submit
<1>4. QED
  BY <1>1, <1>2, <1>3, Zenon DEF TypeInv, TypeOK, TypeData, TypeBool

LEMMA PollIsrType == ASSUME TypeInv, PollIsr PROVE TypeInv'
<1>1. TypeData'
  BY DEF TypeInv, TypeOK, TypeData, PollIsr, PCs
<1>2. TypeBool'
  BY Zenon DEF TypeInv, TypeOK, TypeBool, PollIsr
<1>3. LoopBounds'
  BY DEF TypeInv, TypeOK, LoopBounds, PollIsr
<1>4. QED
  BY <1>1, <1>2, <1>3, Zenon DEF TypeInv, TypeOK, TypeData, TypeBool

LEMMA RingSeenType == ASSUME TypeInv, RingSeen PROVE TypeInv'
<1>1. TypeData'
  BY DEF TypeInv, TypeOK, TypeData, RingSeen, deviceVars, PCs
<1>2. TypeBool'
  BY Zenon DEF TypeInv, TypeOK, TypeBool, RingSeen, deviceVars
<1>3. LoopBounds'
  BY DEF TypeInv, TypeOK, LoopBounds, RingSeen
<1>4. QED
  BY <1>1, <1>2, <1>3, Zenon DEF TypeInv, TypeOK, TypeData, TypeBool

LEMMA CopyType == ASSUME TypeInv, Copy PROVE TypeInv'
<1>0. ret' \in Results
  <2>1. "Ok" \in Errs /\ sector \in SectorVals /\ dataBuf \in SectorVals
        /\ statusByte \in {S_OK, S_IOERR}
    BY ResultConsts DEF TypeInv, TypeOK
  <2>2. QED
    BY <2>1, ResultType, Zenon DEF Copy
<1>1. TypeData'
  BY <1>0 DEF TypeInv, TypeOK, TypeData, Copy, deviceVars, PCs
<1>2. TypeBool'
  BY Zenon DEF TypeInv, TypeOK, TypeBool, Copy, deviceVars
<1>3. LoopBounds'
  BY DEF TypeInv, TypeOK, LoopBounds, Copy
<1>4. QED
  BY <1>1, <1>2, <1>3, Zenon DEF TypeInv, TypeOK, TypeData, TypeBool

LEMMA FetchType == ASSUME TypeInv, DeviceFetch PROVE TypeInv'
<1>0. /\ inflight' \in [SectorVals -> Nat]
      /\ devAvail' \in 0..U16 - 1
  <2>1. inflight \in [SectorVals -> Nat] /\ reqSector \in SectorVals
        /\ devAvail \in 0..U16 - 1
    BY DEF TypeInv, TypeOK
  <2>2. QED
    BY <2>1, InflightInc, WrapInc, Zenon DEF DeviceFetch
<1>1. TypeData'
  BY <1>0 DEF TypeInv, TypeOK, TypeData, DeviceFetch, driverVars
<1>2. TypeBool'
  BY Zenon DEF TypeInv, TypeOK, TypeBool, DeviceFetch, driverVars
<1>3. LoopBounds'
  BY DEF TypeInv, TypeOK, LoopBounds, DeviceFetch, driverVars
<1>4. QED
  BY <1>1, <1>2, <1>3, Zenon DEF TypeInv, TypeOK, TypeData, TypeBool

LEMMA CompleteType == ASSUME TypeInv, NEW s \in SectorVals, DeviceComplete(s) PROVE TypeInv'
<1>0. /\ inflight' \in [SectorVals -> Nat]
      /\ usedIdx' \in 0..U16 - 1
      /\ statusByte' \in {S_OK, S_IOERR}
      /\ dataBuf' \in SectorVals
  <2>1. inflight \in [SectorVals -> Nat] /\ usedIdx \in 0..U16 - 1
        /\ dataBuf \in SectorVals
    BY DEF TypeInv, TypeOK
  <2>2. inflight' \in [SectorVals -> Nat]
    BY <2>1, InflightDec, Zenon DEF DeviceComplete
  <2>3. usedIdx' \in 0..U16 - 1
    BY <2>1, WrapInc, Zenon DEF DeviceComplete
  <2>4. statusByte' \in {S_OK, S_IOERR} /\ dataBuf' \in SectorVals
    BY <2>1, ResultConsts, Zenon DEF DeviceComplete
  <2>5. QED
    BY <2>2, <2>3, <2>4
<1>1. TypeData'
  BY <1>0 DEF TypeInv, TypeOK, TypeData, DeviceComplete, driverVars
<1>2. TypeBool'
  BY Zenon DEF TypeInv, TypeOK, TypeBool, DeviceComplete, driverVars
<1>3. LoopBounds'
  BY DEF TypeInv, TypeOK, LoopBounds, DeviceComplete, driverVars
<1>4. QED
  BY <1>1, <1>2, <1>3, Zenon DEF TypeInv, TypeOK, TypeData, TypeBool

(* The retry path of read_block (read_block_real timed out) keeps the   *)
(* counters and the result typed, whichever way its IF goes.             *)
LEMMA TimeoutType ==
  ASSUME TypeInv, pc # "idle", ReadRealTimeout, UNCHANGED sector
  PROVE  /\ retries' \in 0..MaxRetries
         /\ pc' \in {"idle", "submit"}
         /\ pc' # "idle" => retries' < MaxRetries
         /\ ret' \in Results
         /\ synced' \in BOOLEAN
<1>1. retries \in 0..MaxRetries /\ retries < MaxRetries
  BY DEF TypeInv, TypeOK, LoopBounds
<1>2. /\ retries' \in 0..MaxRetries
      /\ pc' \in {"idle", "submit"}
      /\ pc' # "idle" => retries' < MaxRetries
  BY <1>1 DEF ReadRealTimeout
<1>3. ret' \in Results
  <2>1. "Timeout" \in Errs /\ sector \in SectorVals /\ NoData \in SectorVals
        /\ S_OK \in {S_OK, S_IOERR} /\ ret \in Results
    BY ResultConsts DEF TypeInv, TypeOK
  <2>2. QED
    BY <2>1, ResultType, Zenon DEF ReadRealTimeout
<1>4. synced' \in BOOLEAN
  BY Zenon DEF ReadRealTimeout
<1>5. QED
  BY <1>2, <1>3, <1>4

(* One more iteration of the poll loop, or its early exit, keeps the type *)
(* invariant, for a valid-attempt count below its bound.                 *)
LEMMA EndAttemptType ==
  ASSUME TypeInv, pc \in {"poll", "ring"}, NEW v \in 0..MaxValidAttempts,
         EndAttempt(v), ringRetry' \in 0..MaxRingRetries,
         UNCHANGED <<sector, curUsed, reads, reqSector, availIdx, lastUsed,
                     deviceVars>>
  PROVE  TypeInv'
<1>1. CASE (attempt > NoProgressAttempt /\ v = 0) \/ attempt + 1 = MaxAttempts
  <2>1. ReadRealTimeout /\ UNCHANGED <<attempt, valid>>
    BY <1>1 DEF EndAttempt
  <2>2. /\ retries' \in 0..MaxRetries
        /\ pc' \in {"idle", "submit"}
        /\ pc' # "idle" => retries' < MaxRetries
        /\ ret' \in Results
        /\ synced' \in BOOLEAN
    <3>1. pc # "idle" /\ UNCHANGED sector
      OBVIOUS
    <3>2. QED
      BY <2>1, <3>1, TimeoutType
  <2>3. TypeData'
    BY <2>1, <2>2 DEF TypeInv, TypeOK, TypeData, deviceVars, PCs
  <2>4. TypeBool'
    BY <2>2, Zenon DEF TypeInv, TypeOK, TypeBool, deviceVars
  <2>5. LoopBounds'
    BY <2>2 DEF LoopBounds
  <2>6. QED
    BY <2>3, <2>4, <2>5, Zenon DEF TypeInv, TypeOK, TypeData, TypeBool
<1>2. CASE ~((attempt > NoProgressAttempt /\ v = 0) \/ attempt + 1 = MaxAttempts)
  <2>1. /\ attempt' = attempt + 1 /\ valid' = v /\ pc' = "poll"
        /\ UNCHANGED <<retries, ret, synced>>
    BY <1>2 DEF EndAttempt
  <2>2. attempt + 1 < MaxAttempts
    BY <1>2 DEF TypeInv, TypeOK, LoopBounds
  <2>3. TypeData'
    BY <2>1, <2>2 DEF TypeInv, TypeOK, TypeData, deviceVars, PCs
  <2>4. TypeBool'
    BY <2>1, Zenon DEF TypeInv, TypeOK, TypeBool, deviceVars
  <2>5. LoopBounds'
    BY <2>1, <2>2 DEF TypeInv, LoopBounds
  <2>6. QED
    BY <2>3, <2>4, <2>5, Zenon DEF TypeInv, TypeOK, TypeData, TypeBool
<1>3. QED
  BY <1>1, <1>2

LEMMA PollNoIsrType == ASSUME TypeInv, PollNoIsr PROVE TypeInv'
<1>1. valid \in 0..MaxValidAttempts /\ ringRetry \in 0..MaxRingRetries
  BY DEF TypeInv, TypeOK
<1>2. /\ pc \in {"poll", "ring"} /\ EndAttempt(valid)
      /\ ringRetry' \in 0..MaxRingRetries
      /\ UNCHANGED <<sector, curUsed, reads, reqSector, availIdx, lastUsed,
                     deviceVars>>
  BY <1>1 DEF PollNoIsr
<1>3. QED
  BY <1>1, <1>2, EndAttemptType

LEMMA RingIdleType == ASSUME TypeInv, RingIdle PROVE TypeInv'
<1>0. pc = "ring"
  BY DEF RingIdle
<1>1. ringRetry \in 0..MaxRingRetries /\ ringRetry < MaxRingRetries
      /\ valid \in 0..MaxValidAttempts
  BY <1>0 DEF TypeInv, TypeOK, LoopBounds
<1>2. ringRetry' = ringRetry + 1 /\ ringRetry' \in 0..MaxRingRetries
  BY <1>1 DEF RingIdle
<1>3. CASE ringRetry + 1 < MaxRingRetries
  <2>1. UNCHANGED <<retries, attempt, valid, ret, synced>> /\ pc' = "ring"
    BY <1>3, Zenon DEF RingIdle
  <2>2. TypeData'
    BY <1>2, <2>1 DEF TypeInv, TypeOK, TypeData, RingIdle, deviceVars, PCs
  <2>3. TypeBool'
    BY <2>1, Zenon DEF TypeInv, TypeOK, TypeBool, RingIdle, deviceVars
  <2>4. LoopBounds'
    BY <1>0, <1>3, <1>2, <2>1 DEF TypeInv, LoopBounds
  <2>5. QED
    BY <2>2, <2>3, <2>4, Zenon DEF TypeInv, TypeOK, TypeData, TypeBool
<1>4. CASE ~(ringRetry + 1 < MaxRingRetries) /\ valid + 1 >= MaxValidAttempts
  <2>1. ReadRealTimeout /\ UNCHANGED <<attempt, valid>>
    BY <1>4 DEF RingIdle
  <2>2. /\ retries' \in 0..MaxRetries
        /\ pc' \in {"idle", "submit"}
        /\ pc' # "idle" => retries' < MaxRetries
        /\ ret' \in Results
        /\ synced' \in BOOLEAN
    BY <2>1, TimeoutType DEF RingIdle
  <2>3. TypeData'
    BY <1>2, <2>1, <2>2 DEF TypeInv, TypeOK, TypeData, RingIdle, deviceVars,
                              PCs
  <2>4. TypeBool'
    BY <2>2, Zenon DEF TypeInv, TypeOK, TypeBool, RingIdle, deviceVars
  <2>5. LoopBounds'
    BY <2>2 DEF LoopBounds
  <2>6. QED
    BY <2>3, <2>4, <2>5, Zenon DEF TypeInv, TypeOK, TypeData, TypeBool
<1>5. CASE ~(ringRetry + 1 < MaxRingRetries) /\ ~(valid + 1 >= MaxValidAttempts)
  <2>1. EndAttempt(valid + 1)
    BY <1>5 DEF RingIdle
  <2>2. valid + 1 \in 0..MaxValidAttempts
    BY <1>1, <1>5
  <2>3. UNCHANGED <<sector, curUsed, reads, reqSector, availIdx, lastUsed,
                    deviceVars>>
    BY DEF RingIdle
  <2>4. QED
    BY <1>2, <2>1, <2>2, <2>3, EndAttemptType DEF RingIdle
<1>6. QED
  BY <1>3, <1>4, <1>5

LEMMA StutterType == ASSUME TypeInv, UNCHANGED vars PROVE TypeInv'
<1>1. TypeData'
  BY DEF TypeInv, TypeOK, TypeData, vars, driverVars, deviceVars
<1>2. TypeBool'
  BY Zenon DEF TypeInv, TypeOK, TypeBool, vars, driverVars, deviceVars
<1>3. LoopBounds'
  BY DEF TypeInv, LoopBounds, vars, driverVars
<1>4. QED
  BY <1>1, <1>2, <1>3, Zenon DEF TypeInv, TypeOK, TypeData, TypeBool

(* Every step of the driver or of the device keeps the type invariant.   *)
LEMMA TypeStep == TypeInv /\ [Next]_vars => TypeInv'
<1> SUFFICES ASSUME TypeInv, [Next]_vars PROVE TypeInv'
  OBVIOUS
<1>1. CASE Driver
  BY <1>1, OutOfRangeType, StartType, SubmitType, PollIsrType, PollNoIsrType,
     RingIdleType, RingSeenType, CopyType DEF Driver
<1>2. CASE Device
  BY <1>2, FetchType, CompleteType DEF Device
<1>3. CASE UNCHANGED vars
  BY <1>3, StutterType
<1>4. QED
  BY <1>1, <1>2, <1>3 DEF Next

(* Type correctness of the read path: every variable keeps its type, in  *)
(* particular the u16 ring indices stay in 0..65535 and the loop counters *)
(* of read_block and read_block_real never pass their bounds.            *)
THEOREM TypeCorrect == Spec => []TypeOK
<1>1. TypeInv => TypeOK
  BY DEF TypeInv
<1>2. QED
  BY TypeInit, TypeStep, <1>1, PTL DEF Spec

-----------------------------------------------------------------------------
(***************************************************************************)
(* Correctness of read_block while no request has timed out or failed.    *)
(***************************************************************************)

(* The device holds no fetched request.                                   *)
NoInflight == \A x \in SectorVals : inflight[x] = 0

(* The device holds exactly one fetched request, for sector x.           *)
OnlyInflight(x) ==
  inflight[x] = 1 /\ \A y \in SectorVals \ {x} : inflight[y] = 0

(* The three stages of the one request of the current read_block call   *)
(* while the driver polls: published and not fetched, fetched, completed. *)
ReqUnfetched == devAvail = lastUsed /\ usedIdx = lastUsed /\ NoInflight
ReqFetched ==
  devAvail = availIdx /\ usedIdx = lastUsed /\ OnlyInflight(sector)
ReqCompleted ==
  devAvail = availIdx /\ usedIdx = availIdx /\ NoInflight /\ dataBuf = sector

(* What has been returned so far: every Ok carries its sector's data.    *)
SyncRet == ret.err = "Ok" => ret.data = ret.sector

(* Between two read_block calls, or before the request is published,     *)
(* nothing is outstanding: every published entry was fetched and          *)
(* completed, and every completion was consumed.                          *)
SyncIdle ==
  pc \in {"idle", "submit"} =>
    /\ availIdx = lastUsed /\ devAvail = lastUsed /\ usedIdx = lastUsed
    /\ NoInflight

(* While the driver polls, exactly the request of this call is           *)
(* outstanding, in one of its three stages.                               *)
SyncPoll ==
  pc \in {"poll", "ring"} =>
    /\ reqSector = sector
    /\ availIdx = (lastUsed + 1) % U16
    /\ ReqUnfetched \/ ReqFetched \/ ReqCompleted

(* When the driver copies the buffer out, its request has completed and  *)
(* current_used_idx is the used index of that completion.                 *)
SyncCopy ==
  pc = "copy" =>
    /\ availIdx = (lastUsed + 1) % U16
    /\ curUsed = availIdx /\ ReqCompleted

(* While synced, the driver and the device agree on the ring: between    *)
(* calls nothing is outstanding, during a call exactly the one request of *)
(* this call is, and the Ok results returned so far carry their sector's  *)
(* data.                                                                   *)
SyncInv == synced => SyncRet /\ SyncIdle /\ SyncPoll /\ SyncCopy

Inv == TypeInv /\ SyncInv

(* Moving an index below n > 1 on by one modulo n never leaves it where  *)
(* it was.                                                                 *)
LEMMA ModSuccNeq ==
  ASSUME NEW y \in Nat, NEW n \in Nat, n > 1, y < n PROVE (y + 1) % n # y
<1>1. CASE y + 1 < n
  <2>1. (y + 1) % n = y + 1
    BY <1>1, SMT
  <2>2. QED
    BY <2>1
<1>2. CASE y + 1 = n
  <2>1. (y + 1) % n = 0
    BY <1>2, SMT
  <2>2. QED
    BY <1>2, <2>1
<1>3. QED
  BY <1>1, <1>2

(* The ring size 2^16 has more than one index.                            *)
LEMMA U16Big == U16 \in Nat /\ U16 > 1
  BY DEF U16

(* A u16 index moved on by one modulo 2^16 differs from where it was.   *)
LEMMA WrapNeq == ASSUME NEW x \in 0..U16 - 1 PROVE (x + 1) % U16 # x
<1>1. x \in Nat /\ x < U16
  BY U16Big
<1>2. QED
  BY <1>1, U16Big, ModSuccNeq

(* Once a request has timed out or failed, synced stays FALSE: a step    *)
(* that ends synced started synced.                                      *)
LEMMA SyncedStays == ASSUME [Next]_vars, synced' PROVE synced
<1>1. ASSUME ReadRealTimeout PROVE ~synced'
  BY <1>1, Zenon DEF ReadRealTimeout
<1>2. ASSUME NEW v, EndAttempt(v) PROVE synced' => synced
  BY <1>1, <1>2, Zenon DEF EndAttempt
<1>3. CASE Driver
  <2>1. CASE RingIdle
    BY <1>1, <1>2, <2>1, Zenon DEF RingIdle
  <2>2. CASE PollNoIsr
    BY <1>2, <2>2, Zenon DEF PollNoIsr
  <2>3. CASE \/ \E s \in Sectors : ReadOutOfRange(s) \/ ReadStart(s)
             \/ Submit \/ PollIsr \/ RingSeen \/ Copy
    BY <2>3, Zenon DEF ReadOutOfRange, ReadStart, Submit, PollIsr, RingSeen, Copy
  <2>4. QED
    BY <1>3, <2>1, <2>2, <2>3 DEF Driver
<1>4. CASE Device
  BY <1>4, Zenon DEF Device, DeviceFetch, DeviceComplete
<1>5. CASE UNCHANGED vars
  BY <1>5, Zenon DEF vars
<1>6. QED
  BY <1>3, <1>4, <1>5 DEF Next

LEMMA SyncInit == Init => SyncInv
<1> SUFFICES ASSUME Init PROVE SyncRet /\ SyncIdle /\ SyncPoll /\ SyncCopy
  BY DEF SyncInv
<1>1. SyncRet
  BY DEF Init, SyncRet
<1>2. NoInflight
  BY DEF Init, NoInflight
<1>3. QED
  BY <1>1, <1>2 DEF Init, SyncIdle, SyncPoll, SyncCopy

(* The ring agreement of a synced state, spelled out.                    *)
SyncParts == SyncRet /\ SyncIdle /\ SyncPoll /\ SyncCopy

LEMMA OutOfRangeSync ==
  ASSUME TypeInv, SyncInv, NEW s \in Sectors, ReadOutOfRange(s), synced'
  PROVE  SyncParts'
<1>1. synced /\ pc = "idle" /\ pc' = "idle"
  BY Zenon DEF ReadOutOfRange
<1>2. SyncIdle
  BY <1>1, Zenon DEF SyncInv
<1>3. SyncRet'
  BY DEF ReadOutOfRange, SyncRet
<1>4. SyncIdle'
  BY <1>1, <1>2 DEF ReadOutOfRange, SyncIdle, NoInflight, deviceVars
<1>5. QED
  BY <1>1, <1>3, <1>4 DEF SyncParts, SyncPoll, SyncCopy

LEMMA StartSync ==
  ASSUME TypeInv, SyncInv, NEW s \in Sectors, ReadStart(s), synced'
  PROVE  SyncParts'
<1>1. synced /\ pc = "idle" /\ pc' = "submit"
  BY Zenon DEF ReadStart
<1>2. SyncIdle /\ SyncRet
  BY <1>1, Zenon DEF SyncInv
<1>3. SyncRet'
  BY <1>2 DEF ReadStart, SyncRet
<1>4. SyncIdle'
  BY <1>1, <1>2 DEF ReadStart, SyncIdle, NoInflight, deviceVars
<1>5. QED
  BY <1>1, <1>3, <1>4 DEF SyncParts, SyncPoll, SyncCopy

LEMMA SubmitSync == ASSUME TypeInv, SyncInv, Submit, synced' PROVE SyncParts'
<1>1. synced /\ pc = "submit" /\ pc' = "poll"
  BY Zenon DEF Submit
<1>2. SyncIdle /\ SyncRet
  BY <1>1, Zenon DEF SyncInv
<1>3. SyncRet'
  BY <1>2 DEF Submit, SyncRet
<1>4. SyncPoll'
  <2>1. availIdx = lastUsed /\ devAvail = lastUsed /\ usedIdx = lastUsed
        /\ NoInflight
    BY <1>1, <1>2 DEF SyncIdle
  <2>2. reqSector' = sector' /\ availIdx' = (lastUsed' + 1) % U16
    BY <2>1 DEF Submit
  <2>3. ReqUnfetched'
    BY <2>1 DEF Submit, ReqUnfetched, NoInflight, deviceVars
  <2>4. QED
    BY <2>2, <2>3 DEF SyncPoll
<1>5. QED
  BY <1>1, <1>3, <1>4 DEF SyncParts, SyncIdle, SyncCopy

(* A step of the poll and used-ring loops that stays in them and leaves  *)
(* the request, the ring and the result alone keeps the agreement.       *)
LEMMA PollLoopSync ==
  ASSUME SyncInv, synced, pc \in {"poll", "ring"}, pc' \in {"poll", "ring"},
         UNCHANGED <<ret, sector, reqSector, availIdx, lastUsed, devAvail,
                     usedIdx, dataBuf, inflight>>
  PROVE  SyncParts'
<1>1. SyncRet /\ SyncPoll
  BY Zenon DEF SyncInv
<1>2. SyncRet'
  BY <1>1 DEF SyncRet
<1>3. SyncPoll'
  BY <1>1 DEF SyncPoll, ReqUnfetched, ReqFetched, ReqCompleted, NoInflight,
              OnlyInflight
<1>4. QED
  BY <1>2, <1>3 DEF SyncParts, SyncIdle, SyncCopy

(* In a synced step, the poll loop neither timed out nor gave up.        *)
LEMMA EndAttemptSynced ==
  ASSUME NEW v, EndAttempt(v), synced'
  PROVE  pc' = "poll" /\ ret' = ret /\ synced' = synced
  BY Zenon DEF EndAttempt, ReadRealTimeout

LEMMA PollIsrSync == ASSUME TypeInv, SyncInv, PollIsr, synced' PROVE SyncParts'
<1>1. synced /\ pc = "poll" /\ pc' = "ring"
  BY Zenon DEF PollIsr
<1>2. UNCHANGED <<ret, sector, reqSector, availIdx, lastUsed, devAvail,
                  usedIdx, dataBuf, inflight>>
  BY DEF PollIsr
<1>3. QED
  BY <1>1, <1>2, PollLoopSync

LEMMA PollNoIsrSync ==
  ASSUME TypeInv, SyncInv, PollNoIsr, synced' PROVE SyncParts'
<1>0. pc = "poll" /\ EndAttempt(valid)
  BY DEF PollNoIsr
<1>1. pc = "poll" /\ pc' = "poll" /\ ret' = ret /\ synced' = synced
  BY <1>0, EndAttemptSynced, Zenon
<1>2. synced
  BY <1>1, Zenon
<1>3. UNCHANGED <<ret, sector, reqSector, availIdx, lastUsed, devAvail,
                  usedIdx, dataBuf, inflight>>
  BY <1>1 DEF PollNoIsr, deviceVars
<1>4. QED
  BY <1>1, <1>2, <1>3, PollLoopSync

LEMMA RingIdleSync ==
  ASSUME TypeInv, SyncInv, RingIdle, synced' PROVE SyncParts'
<1>1. pc = "ring"
  BY DEF RingIdle
<1>2. pc' \in {"poll", "ring"} /\ ret' = ret /\ synced' = synced
  <2>1. CASE ringRetry + 1 < MaxRingRetries
    BY <2>1, Zenon DEF RingIdle
  <2>2. CASE ~(ringRetry + 1 < MaxRingRetries) /\ valid + 1 >= MaxValidAttempts
    BY <2>2, Zenon DEF RingIdle, ReadRealTimeout
  <2>3. CASE ~(ringRetry + 1 < MaxRingRetries) /\ ~(valid + 1 >= MaxValidAttempts)
    <3>1. EndAttempt(valid + 1)
      BY <2>3, Zenon DEF RingIdle
    <3>2. QED
      BY <3>1, EndAttemptSynced, Zenon
  <2>4. QED
    BY <2>1, <2>2, <2>3, Zenon
<1>3. synced
  BY <1>2, Zenon
<1>4. UNCHANGED <<ret, sector, reqSector, availIdx, lastUsed, devAvail,
                  usedIdx, dataBuf, inflight>>
  BY <1>2 DEF RingIdle, deviceVars
<1>5. QED
  BY <1>1, <1>2, <1>3, <1>4, PollLoopSync

LEMMA RingSeenSync == ASSUME TypeInv, SyncInv, RingSeen, synced' PROVE SyncParts'
<1>1. synced /\ pc = "ring" /\ pc' = "copy"
  BY Zenon DEF RingSeen
<1>2. SyncRet /\ SyncPoll
  BY <1>1, Zenon DEF SyncInv
<1>3. ReqCompleted /\ availIdx = (lastUsed + 1) % U16
  <2>1. usedIdx # lastUsed
    BY DEF RingSeen
  <2>2. QED
    BY <1>1, <1>2, <2>1 DEF SyncPoll, ReqUnfetched, ReqFetched
<1>4. SyncCopy'
  BY <1>1, <1>3 DEF RingSeen, SyncCopy, ReqCompleted, NoInflight, deviceVars
<1>5. SyncRet'
  BY <1>2 DEF RingSeen, SyncRet
<1>6. QED
  BY <1>1, <1>4, <1>5 DEF SyncParts, SyncIdle, SyncPoll

LEMMA CopySync == ASSUME TypeInv, SyncInv, Copy, synced' PROVE SyncParts'
<1>1. synced /\ pc = "copy" /\ pc' = "idle"
  BY Zenon DEF Copy
<1>2. SyncCopy
  BY <1>1, Zenon DEF SyncInv
<1>3. curUsed = availIdx /\ ReqCompleted
  BY <1>1, <1>2 DEF SyncCopy
<1>4. SyncRet'
  BY <1>3 DEF Copy, SyncRet, ReqCompleted
<1>5. SyncIdle'
  BY <1>3 DEF Copy, SyncIdle, ReqCompleted, NoInflight, deviceVars
<1>6. QED
  BY <1>1, <1>4, <1>5 DEF SyncParts, SyncPoll, SyncCopy

(* The device fetches only the request of the current call, and only     *)
(* once: outside the poll loop, and after the fetch, devAvail = availIdx. *)
LEMMA FetchSync ==
  ASSUME TypeInv, SyncInv, DeviceFetch, synced' PROVE SyncParts'
<1>1. synced /\ UNCHANGED driverVars
  BY Zenon DEF DeviceFetch
<1>2. SyncParts
  BY <1>1, Zenon DEF SyncInv, SyncParts
<1>3. pc \in {"poll", "ring"} /\ ReqUnfetched
  <2>1. devAvail # availIdx /\ pc \in PCs
    BY DEF DeviceFetch, TypeInv, TypeOK
  <2>2. QED
    BY <1>2, <2>1 DEF SyncParts, SyncIdle, SyncPoll, SyncCopy, PCs,
                      ReqFetched, ReqCompleted
<1>4. reqSector = sector /\ availIdx = (lastUsed + 1) % U16
  BY <1>2, <1>3 DEF SyncParts, SyncPoll
<1>5. ReqFetched'
  <2>1. devAvail' = availIdx' /\ usedIdx' = lastUsed'
    BY <1>1, <1>3, <1>4 DEF DeviceFetch, ReqUnfetched, driverVars
  <2>2. OnlyInflight(sector)'
    <3>1. sector \in SectorVals /\ inflight \in [SectorVals -> Nat]
      BY DEF TypeInv, TypeOK
    <3>2. inflight' = [inflight EXCEPT ![sector] = @ + 1]
      BY <1>4 DEF DeviceFetch
    <3>3. QED
      BY <1>1, <1>3, <3>1, <3>2 DEF ReqUnfetched, NoInflight, OnlyInflight,
                                    driverVars
  <2>3. QED
    BY <2>1, <2>2 DEF ReqFetched
<1>6. QED
  BY <1>1, <1>2, <1>3, <1>4, <1>5 DEF SyncParts, SyncRet, SyncIdle, SyncPoll,
                                      SyncCopy, driverVars

(* The only request the device can complete in a synced state is the one *)
(* of the current call, once, and with the data of its sector.            *)
LEMMA CompleteSync ==
  ASSUME TypeInv, SyncInv, NEW s \in SectorVals, DeviceComplete(s), synced'
  PROVE  SyncParts'
<1>1. synced /\ UNCHANGED driverVars /\ dataBuf' = s
  BY Zenon DEF DeviceComplete
<1>2. SyncParts
  BY <1>1, Zenon DEF SyncInv, SyncParts
<1>3. pc \in {"poll", "ring"} /\ ReqFetched /\ s = sector
  <2>1. inflight[s] > 0 /\ pc \in PCs
    BY DEF DeviceComplete, TypeInv, TypeOK
  <2>2. pc \in {"poll", "ring"} /\ ReqFetched
    BY <1>2, <2>1 DEF SyncParts, SyncIdle, SyncPoll, SyncCopy, PCs,
                      ReqUnfetched, ReqCompleted, NoInflight
  <2>3. QED
    BY <2>1, <2>2 DEF ReqFetched, OnlyInflight
<1>4. availIdx = (lastUsed + 1) % U16
  BY <1>2, <1>3 DEF SyncParts, SyncPoll
<1>5. ReqCompleted'
  <2>1. devAvail' = availIdx' /\ usedIdx' = availIdx'
    BY <1>1, <1>3, <1>4 DEF DeviceComplete, ReqFetched, driverVars
  <2>2. NoInflight'
    <3>1. inflight \in [SectorVals -> Nat]
      BY DEF TypeInv, TypeOK
    <3>2. inflight' = [inflight EXCEPT ![s] = @ - 1]
      BY DEF DeviceComplete
    <3>3. QED
      BY <1>3, <3>1, <3>2 DEF ReqFetched, NoInflight, OnlyInflight
  <2>3. dataBuf' = sector'
    BY <1>1, <1>3 DEF driverVars
  <2>4. QED
    BY <2>1, <2>2, <2>3 DEF ReqCompleted
<1>6. QED
  BY <1>1, <1>2, <1>3, <1>4, <1>5 DEF SyncParts, SyncRet, SyncIdle, SyncPoll,
                                      SyncCopy, driverVars

LEMMA StutterSync ==
  ASSUME SyncInv, UNCHANGED vars PROVE SyncInv'
  BY Zenon DEF SyncInv, SyncRet, SyncIdle, SyncPoll, SyncCopy, ReqUnfetched,
               ReqFetched, ReqCompleted, NoInflight, OnlyInflight, vars,
               driverVars, deviceVars

(* Every step keeps the agreement between the driver and the device.     *)
LEMMA SyncStep == TypeInv /\ SyncInv /\ [Next]_vars => SyncInv'
<1> SUFFICES ASSUME TypeInv, SyncInv, [Next]_vars PROVE SyncInv'
  OBVIOUS
<1>1. CASE UNCHANGED vars
  BY <1>1, StutterSync
<1>2. SUFFICES ASSUME synced', ~UNCHANGED vars PROVE SyncParts'
  BY <1>1, Zenon DEF SyncInv, SyncParts
<1>3. CASE Driver
  BY <1>2, <1>3, OutOfRangeSync, StartSync, SubmitSync, PollIsrSync,
     PollNoIsrSync, RingIdleSync, RingSeenSync, CopySync DEF Driver
<1>4. CASE Device
  BY <1>2, <1>4, FetchSync, CompleteSync DEF Device
<1>5. QED
  BY <1>2, <1>3, <1>4 DEF Next

(* The inductive invariant: type correctness together with the ring      *)
(* agreement holds in every reachable state.                              *)
LEMMA InvInductive == Spec => []Inv
<1>1. Init => Inv
  BY TypeInit, SyncInit DEF Inv
<1>2. Inv /\ [Next]_vars => Inv'
  BY TypeStep, SyncStep DEF Inv
<1>3. QED
  BY <1>1, <1>2, PTL DEF Spec

(* read_block is correct as long as no request of it has timed out and   *)
(* the device has reported no error: every Ok it returns carries the data *)
(* of the sector asked for, because the driver consumes exactly the       *)
(* completion of its own request (last_used_idx bookkeeping of            *)
(* device.rs:583-616).                                                     *)
THEOREM CorrectWhileSynced == Spec => []ReadCorrectWhileSynced
<1>1. Inv => ReadCorrectWhileSynced
  BY Zenon DEF Inv, SyncInv, SyncRet, ReadCorrectWhileSynced,
               ReadReturnsDiskData
<1>2. QED
  BY InvInductive, <1>1, PTL

=============================================================================
