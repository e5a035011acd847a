# Formal models of the RustSBI QEMU boot path

This directory holds TLA+ models of the RustSBI boot firmware under
`src/library/rustsbi/src/` (the virtio-blk driver, the split virtqueue, the
kernel loader, the ELF parser and segment loader, the boot `main`, and the
trap and SBI handler). It also holds the TLC configurations that model-check
them on small instances, and TLAPS proofs about the read path and the trap
handler.

## The system and how its parts interact

On QEMU `virt`, hart 0 runs `examples/minimal_boot.rs` `main()` alone with
interrupts off. The boot proceeds in order:

1. **Probe and initialisation** (`virtio/blk/device.rs`: `probe_all_devices`,
   `initialize`).
   - The driver scans the virtio-mmio slots and adopts the first slot that has
     a block device, falling back to a generic device.
   - For the adopted device it runs the legacy status handshake, allocates
     the queue memory, builds a `Virtqueue` (`virtio/queue.rs`) and writes
     `QUEUE_PFN`.
2. **Staging the kernel** (`kernel/loader.rs`).
   - `detect_elf_start_sector` reads sectors until one begins with the ELF
     magic.
   - `load_kernel_raw` copies a fixed number of sectors from that start into
     a 1 MiB staging buffer.
   - Every sector is read with `VirtioBlk::read_block`. It publishes a fixed
     two-descriptor chain on the avail ring, polls the ISR and the used
     ring, and copies the data out. It retries up to `MAX_RETRIES` times.
3. **Parsing and handoff** (`kernel/elf_parser.rs`, `minimal_boot.rs`).
   - `main()` checks the staged magic and builds an `ElfParser`.
   - If the entry point lies outside the accepted window, `main()` jumps to
     0x80400000 at once.
   - Otherwise it calls `load_segments`, which hands each `PT_LOAD` segment's
     bytes to a closure, and then jumps to the entry point.
   - The closure calls `memory::load_segment`. It copies the slice to
     `p_vaddr` byte by byte with `copy_to_address`, reading it from the
     staging buffer in place. It then zeroes the BSS tail with
     `zero_memory`.
4. **Serving the kernel** (`trap/handler.rs`).
   - `trap_handler` dispatches on `mcause`. An S-mode ecall goes to
     `handle_sbi_call_direct`, which serves the base, console, timer and
     vendor extensions, and shuts down on SRST. An M-mode ecall and an
     instruction access fault are stepped over. Any other trap shuts down.
   - Nothing in the repository writes `mtvec`, and the assembly entry stub
     that would call `trap_handler` and `mret` to the address it returns is
     missing. The model takes the stub to do exactly that.

The driver and the device are the only concurrent actors. Hart 0 runs the
driver code, and the QEMU device model consumes the avail ring and fills the
used ring asynchronously. Everything else runs sequentially on one hart.

## Modules

| Module | Models | State | Actions |
|---|---|---|---|
| `VirtioBlkRead` | `read_block`, `read_block_real` (device.rs) and the ring operations they call; the device model | driver `pc`, loop counters, `availIdx`/`lastUsed`/`curUsed` (u16), request header, data buffer, status byte, ISR bit, device `devAvail`/`usedIdx`/`inflight` | `ReadStart`, `ReadOutOfRange`, `Submit`, `PollIsr`, `PollNoIsr`, `RingIdle`, `RingSeen`, `Copy`, `ReadRealTimeout`; device `DeviceFetch`, `DeviceComplete` |
| `VirtqueueAlloc` | `Virtqueue::new`, `alloc_desc_chain`, `free_desc_chain`, `get_descriptor_ptr` (queue.rs) | descriptor `next` links, `free_head`, `num_free` (u16), chains held by the client | `AllocDescChain(n)`, `FreeDescChain(c)` |
| `VirtioBlkProbe` | `probe_all_devices`, `initialize`, `allocate_queue_memory`, `Virtqueue::new`'s checks, `config_capacity` (device.rs) | scan index, candidate list, per-slot status bits, `QUEUE_PFN`, capacity | `Scan`, `TryBlock`, `TryGeneric` (each one whole iteration of the code's loop) |
| `KernelBoot` | `create_kernel_loader`, `load_kernel_raw`, `detect_elf_start_sector` (loader.rs) and the flow of `main()` | disk contents (elf/junk per sector), scan position, start sector, staging buffer, `bytes_loaded`, jump target; `synced` (no `read_block` has timed out or failed yet) and `asked` (the sectors requested so far) | `Probe`, `Detect`, `Bulk`, `Check`, `Parse`; each read goes through `ReadBlock` |
| `ElfLoadSegments` | `ElfParser::new`, `load_segments` (elf_parser.rs) with usize arithmetic | slice length, header fields, build (overflow checks or not), loop index, ranges read, segments yielded | `New`, `Table`, `Step` |
| `SegmentLoad` | the per-segment part of `load_segments` (offset check, clamp), `main()`'s closure, `memory::load_segment`, `copy_to_address`, `zero_memory` (elf_parser.rs) | byte memory with the staged file, header table, loop index, outcome | `SegOutOfRange`, `SegHang`, `LoadSeg`, `Finish` |
| `TrapHandler` | `trap_handler` and the handlers it calls (handler.rs), with a kernel program on the same hart | program, privilege, hart mode (kernel/trap/off), `pc`, `mcause`, `mepc`, console bytes, last answer | `KernelStep` (the hart; not repository code), `TrapSrst`, `TrapSbiCall`, `TrapStepOver`, `TrapFatal` (the arms of the dispatch) |
| `SbiService` | the abstract SBI service of spec 4.7: each instruction of the kernel completes in one step, an ecall is served, SRST and an illegal instruction stop the machine | program, privilege, instructions completed, console, answer, halted | `Run` |
| `KernelLoader` | the abstract loader of spec 4.5: the hart either stops, or enters the disk's sectors from a scanned sector with the ELF magic to the end of the staging window; once a read has lost step with the device (`faulty`), any window-length image with the magic at offset 0 | capacity, disk, phase (boot/entered/stopped), image entered, `faulty` | `Enter`, `Fault`, `Stop` |
| `VirtioBlkRead_proofs` | TLAPS proofs about `VirtioBlkRead` | | |
| `TrapHandler_proofs` | TLAPS proofs about `TrapHandler` and its refinement of `SbiService` | | |
| `KernelBoot_proofs` | TLAPS proofs about `KernelBoot` and its refinement of `KernelLoader` | | |
| `SegmentLoad_proofs` | TLAPS proofs about `SegmentLoad` | | |
| `ElfLoadSegments_proofs` | TLAPS proofs about `ElfLoadSegments` | | |
| `VirtioBlkProbe_proofs` | TLAPS proofs about `VirtioBlkProbe` | | |
| `VirtqueueAlloc_proofs` | TLAPS proofs about `VirtqueueAlloc` | | |

The `MC_*` modules extend a model and give its constants small values. Each
`.cfg` names one specification and the properties of one run.

**Abstractions**

- A sector's content is its own number (`VirtioBlkRead`) or whether it begins
  with the ELF magic (`KernelBoot`).
- `KernelBoot` abstracts `read_block` to its outcomes (`ReadBlock`). A
  sector past the capacity is an error. While `synced` holds, a sector on
  the disk returns its data. When the device may fail (`ReadMayFail`), a
  read may instead time out or complete with an I/O error, and then end in
  an error or in an `Ok` carrying stale bytes (`StaleData`): junk or the data
  of a sector asked for earlier. This is what `VirtioBlkRead` shows the
  driver doing. After a timeout, the next call of `read_block_real` takes
  the abandoned request's completion. An `IOERR` completion is copied out
  of the shared buffer at `0x80070050` unchanged. Either outcome clears
  `synced`.
- Every ring entry carries head 0, so only the 16-bit indices are kept.
- Addresses, lengths and flags of descriptors are left out of the allocator,
  which only follows `next`.
- usize arithmetic keeps its width as the constant `Width`, set to 8 for TLC.
  An overflow wraps in a release build and panics in a debug build; the build
  is a nondeterministic choice in `Init`.
- `copy_to_address` copies byte by byte with `ptr::copy`'s forward
  order, so a destination that overlaps the source from above repeats the
  first `dst - src` bytes. `SegmentLoad` states the result in closed form:
  byte `i` of the destination is source byte `i % (dst - src)` when
  `src < dst`, and byte `i` otherwise. `MC_SegmentLoad` checks this against
  the byte loop, a recursive function, by the assumption `CopyMatchesLoop`.
  TLC evaluates it for every destination, source and length in the model's
  memory. It uses the memory whose byte `a` holds `a`: the copy only moves
  bytes, so agreement on that memory is agreement on every memory.
- In `SegmentLoad` the byte at file offset `o` holds the tag `o + 1`, and
  memory outside the staging buffer starts as a junk value. A misplaced,
  missing or unzeroed byte is therefore visible.
- In `TrapHandler` an instruction is a record: ordinary, fetch fault,
  illegal, or an ecall with its `a7`, `a6` and `a0`. Addresses are byte
  offsets, 4 bytes per instruction. `mcause & 0x7FFF_FFFF` is `mcause`
  itself for the codes a hart raises here. The u64 error
  `0xFFFFFFFFFFFFFFFF` is kept as -1, as SBI reads it.
- In the probe model, `StatusAfterWrite` models the QEMU device. A slot with
  device id 0 has no backend: it reads 0 and ignores writes. A version 2
  transport ignores `QUEUE_PFN`.

## Runs

| Run | Expect | What it shows |
|---|---|---|
| `read_sync` | pass | `TypeOK`. `ReadCorrectWhileSynced`: until a request times out or the device fails, every Ok carries the requested sector's data. `ReadTerminates`: every `read_block` call returns. |
| `read_stale` | violation | After a timeout, the completion of the abandoned request is consumed by the next call, which returns the wrong sector's data as Ok. |
| `alloc_types` | pass | `TypeOK` of the allocator under alloc/free sequences. |
| `alloc_double` | violation | After a free, `free_head` points into a held chain, so alloc hands out a descriptor twice. |
| `probe` | pass | `TypeOK`. `ProbeAdoptsFirstBlock`: the probe adopts the first slot holding a block device that initialises. `OnlyAdoptedDeviceActive`: no slot other than the adopted one is left with `DRIVER_OK`. |
| `boot` | pass | `TypeOK`. `JumpsOnlyIntoStagedElf`: while every read has returned its own sector (`synced`), the kernel is only entered when the start sector holds the magic and the staged buffer equals the disk from that sector on. Without the `synced` guard the property fails: a stale `Ok` in the bulk loop puts another sector's bytes into the buffer, the root cause the `read_stale` run shows. `ImplementsKernelLoader`: under the mapping "phase = entered after the jump, stopped after a shutdown or the halt loop, boot otherwise; image = the first `bytes_loaded` sectors of the buffer after the jump; faulty = not synced", the boot flow implements `KernelLoader`, fairness included, with reads that fail or return stale data. |
| `boot_smalldisk` | violation | A disk that holds an ELF but is smaller than the fixed 1968-sector staging window never boots. |
| `boot_unloaded` | violation | `main()` jumps to the kernel although `load_segments` failed or never ran. |
| `elf_segments` | pass | `TypeOK`. `SegmentYieldContract`: every segment handed to `load_func` is `min(p_filesz, len - p_offset)` bytes and lies inside the slice. |
| `seg_load` | pass | `SegmentsMaterialized` (spec 8.4 with the clamp of 4.4): for a well-formed image, every segment the loop has handed to `load_segment` holds `min(p_filesz, len - p_offset)` file bytes followed by zeros up to `p_memsz`, while later segments are loaded and at the end. |
| `trap_service` | pass | `TypeOK`. `ImplementsSbiService`: under the mapping "instructions completed = `pc` / 4, or `mepc` / 4 while the handler holds a trap", the handler implements `SbiService`, fairness included. The answers are the parameter `Answer`, instantiated with the handler's own table, so this run shows how calls are served and where execution resumes, not that the table's values are right. |
| `elf_phdr` | violation | In a release build a huge `e_phoff` wraps the table bound check, and the parser reads a header outside the slice. |

Every property of a passing run also has a mutant in `PROJECT.json`. A mutant
is a plausible bug in the modelled code (an off-by-one, a dropped wrap, a
missing return, a missing clamp) that makes TLC find the property violated.
The findings in `PROJECT.json` explain each violation run and the code lines
behind it. Further defects met while modelling are listed as hazards with a
note rather than given runs of their own:

- the status byte is never read, so an `IOERR` completion returns Ok;
- retries republish the head while the device may not have fetched it.
  The model's device can delay a fetch and `avail.idx` then runs ahead. But
  QEMU pops the ring on the notify write itself;
- a modern (version 2) transport ignores `QUEUE_PFN`, and the probe only
  reports the zero read-back. Spec 1 excludes that transport, and QEMU's
  virtio-mmio is legacy by default;
- the 0x1000 guard is in `copy_to_address`, so a segment with `p_filesz = 0`
  below 0x1000 is zero-filled instead of halting, as spec 4.5 requires;
- `SegmentsMaterialized` assumes the segments avoid the staging buffer
  (spec 5). The code does not check it, and a segment over the buffer
  changes what later copies read;
- the handler writes `(error, value)` to `a0`/`a1` with asm that declares no
  clobber, then returns `mepc + 4` in `a0`;
- the base extension is dispatched at EID 0x00 (spec 4.7 says 0x10), and an
  unknown extension returns -1 where SBI's "not supported" is -2;
- the free walk's `num_free` differs from the queue size after every chain
  is freed, and the walk can loop on a `next` cycle. Both follow from the
  double allocation;
- `DRIVER_OK` is written alone, replacing the handshake bits.

## Bounds and why they are enough

- **Read path.**
  - Three sectors are used: two readable and one beyond the capacity.
  - The queue size is 2, and there are two `read_block` calls.
  - The poll bounds are scaled down with their order kept
    (`NoProgressAttempt < MaxAttempts`, as 2000 < 5000).
  - With two retries and two calls, a timeout can leave a request in flight
    for the next call. This is the scenario behind the stale-completion
    finding.
  - The u16 indices are kept at full width.
- **Allocator.**
  - Queue size 4 and chains of 1 to 3 descriptors.
  - Up to 3 chains held at once, and 10 operations.
  - This is enough to wrap `free_head` past the end and to interleave frees
    and allocs.
- **Probe.**
  - Three slots, each empty, a non-block device or a block device.
  - Block devices come in both versions, with or without keeping
    `FEATURES_OK`, and with capacities 0, normal or above the 10 000 000
    limit.
- **Loader.**
  - Disks of 2, 4 and 5 sectors.
  - A scan of 3 sectors, a staging window of 4 sectors and a buffer of 5
    sectors.
  - These keep the code's ordering (scan < window < buffer), and include a
    disk smaller than the window.
- **ELF.**
  - `Width = 8`, so usize wraps at 256.
  - Lengths, offsets and sizes are chosen on both sides of the wrap and of
    the slice end.
- **Segment loading.**
  - A 14-byte memory with a 4-byte file staged at 2..5, and two headers
    drawn from 54 (2916 images).
  - Offsets 0, 2 and 5 give a whole, a truncated and an out-of-range
    segment. Destinations 6 and 9 are adjacent for a 3-byte `p_memsz`, so a
    fill one byte too long reaches the other segment. Destination 0 is below
    the low limit.
- **Trap handler.**
  - Programs of 3 instructions over every kind. Six extension ids: each
    dispatched one, SRST, and an unknown one (16). Function ids 0 and 1, and
    the arguments 65 and 321, which print the same byte, so the `& 0xFF` is
    visible. Both privileges.
  - Three instructions let a served call, a stepped-over trap and a fatal
    trap follow one another.

## Fairness

Every model is a single sequential program on hart 0, except for the device
of the read path. In `TrapHandler` the kernel and the handler share one hart
and never run at once. Weak fairness is assumed on the hart's steps only:
`WF_vars(Driver)` in `VirtioBlkRead` and `WF_vars(Next)` elsewhere. The device
gets no fairness, because it may never answer. `ReadTerminates` therefore
holds because the code's loops are bounded, not because the device is
assumed to reply.

## What is proved (TLAPS)

`TrapHandler_proofs` proves two theorems for every program length, set of
ids and set of privileges allowed by `TrapConstantsAssumption`:

- `TypeCorrect == Spec => []TypeOK`.
- `Refinement == Spec => Service!Init /\ [][Service!Next]_Service!avars`,
  the safety part of `ImplementsSbiService`.
  - The inductive invariant adds `TrapInv`. While the handler holds a trap,
    `pc = mepc`, `mepc` is inside the program, the instruction there is not
    an ordinary one, and `mcause` is the cause it raises.
  - Without `TrapInv`, a handler step from an arbitrary typed state could
    serve an ecall that is not the program's instruction. It could also
    step over one that should halt.
  - `CauseFacts` inverts `CauseOf`. Each trap arm then maps to the `Run`
    step of the instruction's kind: SRST and an illegal instruction halt, an
    S ecall is `Serve`d, and the rest step over. The trap entry maps to a
    stutter.
  - `CauseOf` is an IF chain, because the hart's choice of cause is first
    match, and overlapping CASE arms would leave it unspecified.
  - The fairness part (`WF` of `SbiService`) is checked by TLC only.

`VirtioBlkRead_proofs` proves two theorems for every value of the constants
that satisfies the module's `ASSUME`s:

- `TypeCorrect == Spec => []TypeOK`.
  - The proof splits the type invariant into its data part and its Boolean
    part, and proves one lemma per action.
- `CorrectWhileSynced == Spec => []ReadCorrectWhileSynced`.
  - `ReadCorrectWhileSynced` is not inductive: a state with `synced` whose
    rings disagree could return a wrong sector at the next `Copy`.
  - The strengthening is `SyncInv`. While `synced` holds:
    - between calls, nothing is outstanding on the ring;
    - while the driver polls, exactly the current call's request is
      outstanding: published, fetched or completed, and `reqSector = sector`;
    - at `Copy`, that request has completed with the data of `sector`;
    - every Ok returned so far carries its own sector.
  - The proof is `Init => TypeInv /\ SyncInv`, then preservation by every
    action, then the implication.
  - The step lemmas use the fact that a u16 index moved on by one never
    equals itself (`WrapNeq`). This holds because `U16 > 1`.

`KernelBoot_proofs` proves, for every disk size, staging window and
sector contents allowed by the module's `ASSUME`s:

- `TypeCorrect == Spec => []TypeOK`.
- `StagedElf == Spec => []JumpsOnlyIntoStagedElf`.
  - This holds for every disk, whether the device may fail or not. The
    property is guarded by `synced`.
  - The inductive invariant adds these facts:
    - `bytesLoaded` equals the read offset.
    - Before `Detect`, nothing is staged (`NothingStagedYet`). This is
      needed because `Detect` moves the start sector.
    - Every staged sector lies on the disk (`InDisk`), whether or not the
      read was stale.
    - While `synced`, the staged sectors equal the disk from the start
      sector on (`synced => Staged`).
    - A parsed image had the magic at the start sector (`MagicChecked`).
  - `ReadBlockFacts` states what one `ReadBlock` guarantees:
    - a non-error result lies on the disk;
    - a step that keeps `synced` returns the sector's data;
    - `synced` is never set again once it is cleared.
- `LoaderRefinement == Spec => Loader!Init /\ [][Loader!Next]_Loader!avars`,
  the safety part of `ImplementsKernelLoader`.
  - The inductive invariant adds `Window`. During the bulk loop the offset
    is at most `sectors_to_read`, and after it the offset equals
    `sectors_to_read`. Without it, `Parse` from an arbitrary typed state
    could enter an image that ends before the window does.
  - Every stage before the jump maps to phase `boot` with no image, so the
    steps among them are stutters or, when a read clears `synced`,
    `Fault` (`BootingStep`). A shutdown or the halt loop is `Stop`
    (`StopStep`).
  - `Parse` is `Enter` with the start sector as the witness (`EnterStep`).
    `MagicChecked` and `Staged` put the magic at the start sector inside the
    disk. `Window` makes the image length `1968 - start`, and
    `bytes_loaded` keeps it within the buffer. While `synced`, `Staged`
    makes the image the disk's sectors. Otherwise the abstract loader is
    `faulty` and accepts any such image with the magic at offset 0.
  - The fairness part (booting ends) is checked by TLC only.

`ElfLoadSegments_proofs` proves, for every usize width, slice length and
header values, in both builds:

- `TypeCorrect == Spec => []TypeOK`.
- `YieldContract == Spec => []SegmentYieldContract`.
  - `TypeOK` and the contract are inductive together.
  - The core is the lemma `YieldSize`. Suppose `p_offset + p_filesz`
    wraps. A checked build panics. In a release build, either the wrapped
    end exceeds `len` and the size is clamped to `len - p_offset`, or the
    size stays `p_filesz` and the slice check `stop < off` panics. So a
    yielded size is always `min(p_filesz, len - p_offset)`.

`VirtioBlkProbe_proofs` proves:

- `TypeCorrect == Spec => []TypeOK`, with no hypothesis.
- `FirstBlockAdopted == Spec => []ProbeAdoptsFirstBlock` and
  `OthersStayReset == Spec => []OnlyAdoptedDeviceActive`. Both are stated
  under two hypotheses:
  - `QueueLayoutOk`: `allocate_queue_memory` and `Virtqueue::new` accept
    `QUEUE_NUM`. Otherwise no block device initialises, and "the first
    block device that initialises" has another meaning. The code's
    queue size of 2 (`device.rs:328`) satisfies it.
  - `FoundFits`: the candidate list can hold every slot (`NBases <= MaxFound`).
    The code's list of 8 entries holds all 8 probed bases.
  - The inductive invariant describes the scan record: it is sorted, it
    holds exactly the slots scanned so far that answer with a device id,
    and its count matches. It also says that during the block pass no slot
    has been touched, and that a pass with no block device on the bus left
    no device adopted.

`VirtqueueAlloc_proofs` proves `TypeCorrect == Spec => []TypeOK` for every
queue size in 1..1024. It does not reason about the free walk. It needs only
two facts. The stop the walk ends at is one of its positions, by the least
element of a non-empty set of naturals (`NatMin`, from `WellFoundedInduction`).
A write through an index outside the table leaves the table unchanged.

`SegmentLoad_proofs` proves, for every number of headers, memory size,
staging base and header values that `SegConstantsAssumption` allows:

- `Materialized == Spec => []SegmentsMaterialized`.
  - The inductive invariant `Inv` is `TypeOK` plus, for a well-formed
    image (`ValidImage`), two facts: the staged file is intact
    (`StagingIntact`), and every segment handed to `load_segment` so far
    holds its clamped file bytes followed by zeros (`Loaded(i)`).
  - `StagingIntact` is what makes it inductive. A later copy reads the
    staged file, and in a well-formed image no segment overlaps the
    buffer, so the bytes a copy reads are still the file's.
  - `CopyAt` states pointwise what the closed-form copy writes.
    `LoadSegmentFacts` combines it with `ZeroFacts` for `load_segment`. An
    earlier segment keeps its bytes because `ValidImage` keeps the segments
    apart.
  - The proof relies on the closed form of `CopyToAddress`; the agreement
    with the byte loop is the TLC-checked `CopyMatchesLoop`.

**Changes made to the models so that they can be proved.** None of them
changes what TLC explores.

- `ElfLoadSegments`' `Table` and `Step`, and `VirtioBlkProbe`'s
  `InitOutcome`, were CASEs with overlapping arms. They are now IF chains in
  the order the code tests its conditions. Overlapping CASE arms are
  unspecified when several hold, so nothing could be proved about them.
- `ElfConstantsAssumption` also states `2^Width > 1`. It follows from
  `Width > 0`, but the provers cannot evaluate `2^n` for a variable `n`.
- `NoDeviceAssumption` says the "no device" value is not a slot number.
- `SegmentLoad`'s `CopyToAddress` was a recursive operator, the byte loop.
  It is now the closed form described under Abstractions, and the loop is
  kept in `MC_SegmentLoad` to check it (`CopyMatchesLoop`). A module that
  reaches a recursive operator cannot be proved about.
- `KernelLoader`'s `Enter` names the end of the window (`BulkSectors`) so
  that the abstract specification says which sectors are entered.
- Large literals (the u16 modulus, the capacity limit) are used only through
  lemmas (`U16Facts`, `CapacityLimitFacts`). The SMT encoding of an interval
  with a large literal bound overflows.

**Model-checked only.**

- The liveness properties (`ReadTerminates`, and the violated
  `BootsWhenElfOnDisk`), and the fairness parts of `ImplementsSbiService`
  and `ImplementsKernelLoader`, because TLAPS does not handle fairness or
  `ENABLED`.
- `CopyMatchesLoop`: that the closed-form copy equals the byte loop. It
  would need induction over the loop, which the installed provers cannot
  do. TLC checks it on every input of the model's memory.
- `WalkFrom` is a recursive function over the descriptor links. What it
  computes is only checked on bounded inputs.

## What is not modelled

- **The boot handoff (`rust_main`, the assembly entry, register setup).** It
  is straight-line code with no branching state worth a model.
- **Interrupts at the trap handler.** No code writes `mie`, `mideleg` or
  `mstatus`, so no interrupt reaches `trap_handler`. Only exceptions are
  modelled.
- **The kernel's registers after a trap.** The entry stub is not in the
  repository.
- **The console and diagnostics.** They are output only.
- **The error types and constants.** They appear only as values inside the
  other models. `kernel/error.rs` and `virtio/error.rs` hold enums with
  `as_str`, `is_recoverable` and `requires_reset`, which no boot path calls.
- **The build script.** It does not run at boot time.

## Plan for later work

- Compose the probe, the read path and the loader into one model, in which
  `KernelBoot`'s `ReadBlock` is refined by `VirtioBlkRead`.
- Give `VirtqueueAlloc` an abstract free-set specification and a refinement
  mapping.
- Prove that `VirtqueueAlloc` implements an abstract free-set specification
  while no chain is double-freed.
- Compose `ElfLoadSegments` and `SegmentLoad`, so that the yielded slices
  come from the parsed header table.
