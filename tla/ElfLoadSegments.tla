---------------------------- MODULE ElfLoadSegments ----------------------------
(***************************************************************************)
(* ElfParser::new and ElfParser::load_segments                             *)
(* (src/library/rustsbi/src/kernel/elf_parser.rs) on an image of len       *)
(* bytes, with the bounds arithmetic of the code.  Offsets and sizes are   *)
(* usize: an addition wraps modulo 2^Width in a build without overflow     *)
(* checks and panics in one with them; which build runs is chosen in       *)
(* Init.  Rust's slice indexing always checks its bounds and panics.       *)
(* The program headers the loop reads are chosen from small sets of        *)
(* values (the image is arbitrary); their bytes are left out, only the     *)
(* range each read covers is kept.                                         *)
(***************************************************************************)
EXTENDS Naturals

CONSTANTS
  Width,       \* bits of usize (64 on RV64)
  Lens,        \* values of data.len()
  PhOffs,      \* values of e_phoff
  PhNums,      \* values of e_phnum
  PhEntSizes,  \* values of e_phentsize
  SegOffs,     \* values of p_offset
  SegSizes     \* values of p_filesz

Word == 2^Width

(* The second conjunct follows from the first; it is stated because the   *)
(* provers do not reason about 2^n for a variable n.                      *)
ASSUME ElfConstantsAssumption ==
  /\ Width \in Nat \ {0}
  /\ Word \in Nat \ {0, 1}
  /\ \A S \in {Lens, PhOffs, PhNums, PhEntSizes, SegOffs, SegSizes} :
       S \subseteq 0..Word - 1
EhdrSize == 64     \* size_of::<Elf64Ehdr>()
PhdrSize == 56     \* size_of::<Elf64Phdr>()
PT_LOAD == 1

VARIABLES
  len, phoff, phnum, phentsize,  \* the slice's length and the ELF header
  checked,   \* the build has overflow checks
  stage,     \* "new", "table", "loop", "ok", "err" or "panic"
  i,         \* the loop index over program headers
  reads,     \* [lo, hi) of each program header the loop has read
  yields     \* [off, size, filesz] of each segment passed to load_func

vars == <<len, phoff, phnum, phentsize, checked, stage, i, reads, yields>>

-----------------------------------------------------------------------------
Init ==
  /\ len \in Lens /\ phoff \in PhOffs /\ phnum \in PhNums
  /\ phentsize \in PhEntSizes
  /\ checked \in BOOLEAN
  /\ stage = "new" /\ i = 0 /\ reads = {} /\ yields = {}

(* usize a + b: the wrapped sum, and whether the true sum overflows.       *)
Plus(a, b) == (a + b) % Word
Overflows(a, b) == a + b >= Word

(* ElfParser::new: the struct sizes are 64 and 56, so only the length     *)
(* check can fail; the magic has been checked by the caller.               *)
New ==
  /\ stage = "new"
  /\ stage' = IF len < EhdrSize THEN "err" ELSE "table"
  /\ UNCHANGED <<len, phoff, phnum, phentsize, checked, i, reads, yields>>

(* The program header table must end inside the slice                      *)
(* (elf_parser.rs:91-95).  phnum * phentsize cannot overflow a usize.      *)
Table ==
  /\ stage = "table"
  /\ LET total == phnum * phentsize
     IN stage' = IF checked /\ Overflows(phoff, total) THEN "panic"
                 ELSE IF Plus(phoff, total) > len THEN "err"
                 ELSE "loop"
  /\ UNCHANGED <<len, phoff, phnum, phentsize, checked, i, reads, yields>>

(* The bytes of a PT_LOAD segment that lie in the slice: all of p_filesz, *)
(* or up to the slice's end when the segment runs past it                  *)
(* (elf_parser.rs:129-133).  The mutant clamps one byte short.             *)
ReadableOffByOne(off, end, fsz) == IF end > len THEN len - off - 1 ELSE fsz
Readable(off, end, fsz) == IF end > len THEN len - off ELSE fsz

(* for i in 0..ehdr.e_phnum has run its last iteration.  The mutant      *)
(* runs one more.                                                          *)
LoopDoneInclusive(k) == k > phnum
LoopDone(k) == k >= phnum

(* One iteration of the loop: locate header i, check that it and a whole  *)
(* Elf64Phdr fit, read it, and for a PT_LOAD header check p_offset, clamp  *)
(* the size, take the slice and call load_func (elf_parser.rs:97-142).     *)
(* Every usize addition is checked or wraps, by build.                     *)
Step ==
  /\ stage = "loop"
  /\ IF LoopDone(i)
       THEN stage' = "ok" /\ UNCHANGED <<i, reads, yields>>
       ELSE
         LET at == i * phentsize
             po == Plus(phoff, at)
         IN IF checked /\ (Overflows(phoff, at) \/ Overflows(po, phentsize)
                          \/ Overflows(po, PhdrSize))
              THEN stage' = "panic" /\ UNCHANGED <<i, reads, yields>>
            ELSE IF Plus(po, phentsize) > len \/ Plus(po, PhdrSize) > len
              THEN stage' = "err" /\ UNCHANGED <<i, reads, yields>>
            ELSE
              /\ reads' = reads \cup {[lo |-> po, hi |-> po + PhdrSize]}
              /\ i' = i + 1
              /\ \E ptype \in {PT_LOAD, 0}, off \in SegOffs, fsz \in SegSizes :
                   LET end == Plus(off, fsz)
                       size == Readable(off, end, fsz)
                       stop == Plus(off, size)
                   IN IF ptype # PT_LOAD
                        THEN UNCHANGED <<stage, yields>>
                      ELSE IF off > len
                        THEN stage' = "err" /\ UNCHANGED yields
                      ELSE IF checked /\ Overflows(off, fsz)
                        THEN stage' = "panic" /\ UNCHANGED yields
                      ELSE IF size > 0 /\ (stop < off \/ stop > len)
                        THEN stage' = "panic" /\ UNCHANGED yields
                      ELSE /\ yields' = yields \cup
                                {[off |-> off, size |-> size, filesz |-> fsz]}
                           /\ UNCHANGED stage
  /\ UNCHANGED <<len, phoff, phnum, phentsize, checked>>

Next == New \/ Table \/ Step

Spec == Init /\ [][Next]_vars /\ WF_vars(Next)

-----------------------------------------------------------------------------
TypeOK ==
  /\ len \in Lens /\ phoff \in PhOffs /\ phnum \in PhNums
  /\ phentsize \in PhEntSizes /\ checked \in BOOLEAN
  /\ stage \in {"new", "table", "loop", "ok", "err", "panic"}
  /\ i \in 0..phnum
  /\ reads \subseteq [lo : 0..Word - 1, hi : 0..Word + PhdrSize]
  /\ yields \subseteq [off : 0..Word - 1, size : 0..Word - 1,
                       filesz : SegSizes]

(* Spec 4.4: load_func receives data[p_offset .. p_offset + min(p_filesz, *)
(* remaining)]: the truncated tail of a segment that runs past the slice, *)
(* never bytes outside it.                                                 *)
SegmentYieldContract ==
  \A y \in yields :
    /\ y.size = IF y.filesz < len - y.off THEN y.filesz ELSE len - y.off
    /\ y.off + y.size <= len

(* Spec 4.4: the parser validates that the program header table fits in   *)
(* the slice, so every program header it reads lies inside the slice.      *)
ParseReadsInBounds == \A r \in reads : r.hi <= len

=============================================================================
