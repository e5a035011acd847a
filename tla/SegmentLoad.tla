----------------------------- MODULE SegmentLoad -----------------------------
(***************************************************************************)
(* Segment materialisation: the loop of ElfParser::load_segments over the  *)
(* PT_LOAD headers (kernel/elf_parser.rs) together with the callback       *)
(* main() passes it (examples/minimal_boot.rs), memory::load_segment,      *)
(* copy_to_address and zero_memory, over a small physical memory.          *)
(*                                                                         *)
(* The ELF file is the slice the parser was built on: it lives in the      *)
(* staging buffer at StageBase, and copy_to_address reads it from there    *)
(* byte by byte, so a write into the buffer changes what a later copy      *)
(* reads.  The byte at file offset o is tagged FileByte(o); memory outside *)
(* the buffer starts as JUNK, which is neither a file byte nor zero.  The  *)
(* header-table arithmetic and its wrap are ElfLoadSegments' subject;      *)
(* here every header is a PT_LOAD header the table check let through.      *)
(***************************************************************************)
EXTENDS Naturals

CONSTANTS
  MemSize,    \* bytes of physical memory, addresses 0..MemSize-1
  StageBase,  \* where the staged ELF file starts (SAFE_BUFFER_BASE + offset)
  FileLen,    \* self.data.len(): the bytes of the file that were staged
  LowLimit,   \* 0x1000: copy_to_address refuses addresses below it
  NSeg,       \* program headers in the table
  Vaddrs, Offs, FileSizes, MemSizes  \* p_vaddr, p_offset, p_filesz, p_memsz

ASSUME SegConstantsAssumption ==
  /\ NSeg \in Nat /\ FileLen \in Nat /\ StageBase \in Nat /\ MemSize \in Nat
  /\ LowLimit \in Nat
  /\ Vaddrs \cup Offs \cup FileSizes \cup MemSizes \subseteq Nat
  /\ StageBase + FileLen <= MemSize
  /\ \A v \in Vaddrs, s \in FileSizes \cup MemSizes : v + s <= MemSize

Addr == 0..MemSize - 1
Staging == StageBase..StageBase + FileLen - 1
FileByte(o) == o + 1
JUNK == FileLen + 1

Hdrs == [vaddr : Vaddrs, off : Offs, filesz : FileSizes, memsz : MemSizes]

VARIABLES
  mem,    \* physical memory
  phdrs,  \* the program header table
  k,      \* index of the next header, i + 1 in load_segments' loop
  stage   \* "loading", "done" (Ok), "error" (Err) or "hung" (halt loop)

vars == <<mem, phdrs, k, stage>>

-----------------------------------------------------------------------------
Init ==
  /\ mem = [a \in Addr |-> IF a \in Staging THEN FileByte(a - StageBase)
                                            ELSE JUNK]
  /\ phdrs \in [1..NSeg -> Hdrs]
  /\ k = 1
  /\ stage = "loading"

(* readable_size: p_filesz clamped to what the slice holds past p_offset. *)
Readable(h) ==
  IF h.off + h.filesz > FileLen THEN FileLen - h.off ELSE h.filesz

(* copy_to_address's loop: ascending volatile byte stores dst[i] = src[i], *)
(* each reading the source as memory holds it at that moment.  What the    *)
(* loop leaves is written out: byte i of the destination is source byte i, *)
(* except when the destination starts inside the source (src < dst <       *)
(* src + n), where the loop has already overwritten the byte it reads and  *)
(* byte i mod (dst - src) of the source is carried forward.  MC_SegmentLoad *)
(* checks this form against the loop itself.                               *)
CopyToAddress(m, dst, src, n) ==
  LET From(i) == IF src < dst THEN src + (i % (dst - src)) ELSE src + i
  IN  [a \in DOMAIN m |-> IF a \in dst..dst + n - 1 THEN m[From(a - dst)]
                                                 ELSE m[a]]

(* zero_memory: write_bytes(addr, 0, size).                                *)
ZeroMemory(m, a, n) == [x \in DOMAIN m |-> IF x \in a..a + n - 1 THEN 0 ELSE m[x]]

(* A mutant: the BSS tail zeroed for p_memsz bytes, not p_memsz - filesz. *)
LoadSegmentWholeBss(m, dst, src, filesz, memsz) ==
  LET c == IF filesz > 0 THEN CopyToAddress(m, dst, src, filesz) ELSE m
  IN  IF memsz > filesz THEN ZeroMemory(c, dst + filesz, memsz) ELSE c

(* load_segment: copy the slice if it is not empty, then zero the BSS     *)
(* tail [dst + filesz, dst + memsz) when memsz exceeds filesz.            *)
LoadSegment(m, dst, src, filesz, memsz) ==
  LET c == IF filesz > 0 THEN CopyToAddress(m, dst, src, filesz) ELSE m
  IN  IF memsz > filesz THEN ZeroMemory(c, dst + filesz, memsz - filesz) ELSE c

(* copy_to_address's address checks, reached only for a non-empty slice:  *)
(* a destination or a source below 0x1000 enters an endless loop.         *)
Hangs(h) ==
  /\ Readable(h) > 0
  /\ h.vaddr < LowLimit \/ StageBase + h.off < LowLimit

(* A p_offset past the slice: load_segments returns Err.                  *)
SegOutOfRange ==
  /\ stage = "loading" /\ k <= NSeg
  /\ phdrs[k].off > FileLen
  /\ stage' = "error"
  /\ UNCHANGED <<mem, phdrs, k>>

(* The callback's copy_to_address halts on a low address.                 *)
SegHang ==
  /\ stage = "loading" /\ k <= NSeg
  /\ phdrs[k].off <= FileLen /\ Hangs(phdrs[k])
  /\ stage' = "hung"
  /\ UNCHANGED <<mem, phdrs, k>>

(* One iteration of load_segments that yields (p_vaddr, segment_data,     *)
(* p_memsz) to main()'s closure, which calls load_segment with them.       *)
LoadSeg ==
  /\ stage = "loading" /\ k <= NSeg
  /\ LET h == phdrs[k]
     IN  /\ h.off <= FileLen /\ ~Hangs(h)
         /\ mem' = LoadSegment(mem, h.vaddr, StageBase + h.off, Readable(h),
                               h.memsz)
  /\ k' = k + 1
  /\ UNCHANGED <<phdrs, stage>>

(* The loop is over: load_segments returns Ok.                             *)
Finish ==
  /\ stage = "loading" /\ k = NSeg + 1
  /\ stage' = "done"
  /\ UNCHANGED <<mem, phdrs, k>>

Next == SegOutOfRange \/ SegHang \/ LoadSeg \/ Finish

(* One hart runs the loop to its end.                                      *)
Spec == Init /\ [][Next]_vars /\ WF_vars(Next)

-----------------------------------------------------------------------------
(* The image a well-formed ELF describes (spec 4.4, 5): every segment has *)
(* p_filesz <= p_memsz, lies above 0x1000, and its memory range meets     *)
(* neither the staging buffer nor any other segment's range.              *)
Range(h) == h.vaddr..h.vaddr + h.memsz - 1

ValidImage ==
  \A i \in 1..NSeg :
    /\ phdrs[i].filesz <= phdrs[i].memsz
    /\ phdrs[i].vaddr >= LowLimit
    /\ Range(phdrs[i]) \cap Staging = {}
    /\ \A j \in 1..NSeg \ {i} : Range(phdrs[i]) \cap Range(phdrs[j]) = {}

(* Spec 8.4 with the clamp of spec 4.4 (scenario d): after load_segments  *)
(* has handed a segment to main()'s closure, and while later segments are  *)
(* loaded, its range holds the file bytes [p_offset, p_offset + n) with    *)
(* n = min(p_filesz, len - p_offset), followed by zeros up to p_memsz.     *)
(* It is about load_segment's copy and BSS fill reading the staged file    *)
(* in place, across the segments of one image.                             *)
SegmentsMaterialized ==
  ValidImage =>
    \A i \in 1..k - 1 :
      LET h == phdrs[i]
          n == IF h.filesz < FileLen - h.off THEN h.filesz ELSE FileLen - h.off
      IN  \A j \in 0..h.memsz - 1 :
            mem[h.vaddr + j] = IF j < n THEN FileByte(h.off + j) ELSE 0

=============================================================================
