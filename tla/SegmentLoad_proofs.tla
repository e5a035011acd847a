---------------------------- MODULE SegmentLoad_proofs ----------------------------
(***************************************************************************)
(* Proofs about SegmentLoad: for every memory size, staging buffer, file   *)
(* length and header table, when the image is well formed, every segment  *)
(* load_segments has handed to main()'s closure holds its clamped file     *)
(* bytes followed by zeros, while later segments are loaded and at the end. *)
(***************************************************************************)
EXTENDS SegmentLoad, TLAPS

Stages == {"loading", "done", "error", "hung"}

TypeOK ==
  /\ mem \in [Addr -> Nat]
  /\ phdrs \in [1..NSeg -> Hdrs]
  /\ k \in 1..NSeg + 1
  /\ stage \in Stages

(* The staged file is still in place: no segment has been written over it. *)
StagingIntact == \A a \in Staging : mem[a] = FileByte(a - StageBase)

(* Header i's range holds its clamped file bytes, then zeros.              *)
Loaded(i) ==
  LET h == phdrs[i]
      n == IF h.filesz < FileLen - h.off THEN h.filesz ELSE FileLen - h.off
  IN  \A j \in 0..h.memsz - 1 :
        mem[h.vaddr + j] = IF j < n THEN FileByte(h.off + j) ELSE 0

(* SegmentsMaterialized is not inductive on its own: a copy reads the     *)
(* staged file from memory, so the invariant also says the file is intact. *)
Inv ==
  /\ TypeOK
  /\ ValidImage => StagingIntact /\ \A i \in 1..k - 1 : Loaded(i)

-----------------------------------------------------------------------------
(* readable_size, when p_offset is inside the slice, is                  *)
(* min(p_filesz, len - p_offset): at most p_filesz and inside the file.    *)
LEMMA ReadableFacts ==
  ASSUME NEW h \in Hdrs, h.off <= FileLen
  PROVE  /\ Readable(h) \in 0..h.filesz
         /\ h.off + Readable(h) <= FileLen
         /\ Readable(h) = IF h.filesz < FileLen - h.off THEN h.filesz
                                                       ELSE FileLen - h.off
<1> USE SegConstantsAssumption
<1>1. h.off \in Nat /\ h.filesz \in Nat
  BY DEF Hdrs
<1>2. QED
  BY <1>1 DEF Readable

(* copy_to_address over memory inside the table leaves a memory.          *)
LEMMA CopyType ==
  ASSUME NEW m \in [Addr -> Nat], NEW dst \in Nat, NEW src \in Nat,
         NEW n \in Nat, src + n <= MemSize
  PROVE  CopyToAddress(m, dst, src, n) \in [Addr -> Nat]
<1> USE SegConstantsAssumption
<1>1. \A i \in 0..n - 1 :
        (IF src < dst THEN src + (i % (dst - src)) ELSE src + i) \in Addr
  BY DEF Addr
<1>2. \A a \in dst..dst + n - 1 : a - dst \in 0..n - 1
  OBVIOUS
<1>3. QED
  BY <1>1, <1>2 DEF CopyToAddress

(* copy_to_address when the destination does not start inside the source: *)
(* byte i of the destination is byte i of the source, the rest unchanged.  *)
LEMMA CopyAt ==
  ASSUME NEW m \in [Addr -> Nat], NEW dst \in Nat, NEW src \in Nat,
         NEW n \in Nat, src + n <= MemSize,
         src < dst => src + n <= dst, NEW a \in Addr
  PROVE  CopyToAddress(m, dst, src, n)[a] =
           IF a \in dst..dst + n - 1 THEN m[src + (a - dst)] ELSE m[a]
<1>1. \A i \in 0..n - 1 :
        (IF src < dst THEN src + (i % (dst - src)) ELSE src + i) = src + i
  OBVIOUS
<1>2. \A b \in dst..dst + n - 1 : b - dst \in 0..n - 1
  OBVIOUS
<1>3. QED
  BY <1>1, <1>2 DEF CopyToAddress

(* zero_memory clears [a, a + n) and leaves every other byte.             *)
LEMMA ZeroFacts ==
  ASSUME NEW m \in [Addr -> Nat], NEW a, NEW n
  PROVE  /\ ZeroMemory(m, a, n) \in [Addr -> Nat]
         /\ \A x \in Addr :
              ZeroMemory(m, a, n)[x] = IF x \in a..a + n - 1 THEN 0 ELSE m[x]
BY DEF ZeroMemory

(* Byte j of a header's readable part sits in the staging buffer, at      *)
(* buffer offset p_offset + j.                                             *)
LEMMA StagedByte ==
  ASSUME NEW h \in Hdrs, h.off <= FileLen, NEW j \in 0..Readable(h) - 1
  PROVE  /\ StageBase + h.off + j \in Staging
         /\ (StageBase + h.off + j) - StageBase = h.off + j
<1>1. /\ StageBase \in Nat /\ FileLen \in Nat /\ h.off \in Nat
      /\ Readable(h) \in 0..h.filesz /\ h.off + Readable(h) <= FileLen
  BY SegConstantsAssumption, ReadableFacts DEF Hdrs
<1>2. j \in Nat /\ j <= Readable(h) - 1
  OBVIOUS
<1>3. h.off + j <= FileLen - 1
  BY <1>1, <1>2
<1>4. StageBase + h.off + j \in StageBase..StageBase + FileLen - 1
  BY <1>1, <1>2, <1>3
<1>5. QED
  BY <1>1, <1>2, <1>4 DEF Staging

(* load_segment on a header inside the file leaves a memory.              *)
LEMMA LoadSegmentType ==
  ASSUME NEW m \in [Addr -> Nat], NEW h \in Hdrs, h.off <= FileLen
  PROVE  LoadSegment(m, h.vaddr, StageBase + h.off, Readable(h), h.memsz)
           \in [Addr -> Nat]
<1> DEFINE n == Readable(h)
           src == StageBase + h.off
<1>1. /\ h.vaddr \in Nat /\ src \in Nat /\ n \in Nat
      /\ src + n <= MemSize
  BY SegConstantsAssumption, ReadableFacts DEF Hdrs
<1>2. (IF n > 0 THEN CopyToAddress(m, h.vaddr, src, n) ELSE m) \in [Addr -> Nat]
  <2> HIDE DEF n, src
  <2>1. QED
    BY <1>1, CopyType
<1>3. QED
  BY <1>2, ZeroFacts DEF LoadSegment

(* load_segment for a header inside the file whose range misses the       *)
(* staging buffer: it writes only inside the segment's range, which then   *)
(* holds the readable bytes of the staged file followed by zeros.  The     *)
(* source cannot overlap the destination, so the copy is a plain copy.     *)
LEMMA LoadSegmentFacts ==
  ASSUME NEW m \in [Addr -> Nat], NEW h \in Hdrs, h.off <= FileLen,
         h.filesz <= h.memsz, Range(h) \cap Staging = {}
  PROVE  LET n == Readable(h)
             M == LoadSegment(m, h.vaddr, StageBase + h.off, n, h.memsz)
         IN  /\ M \in [Addr -> Nat]
             /\ \A a \in Addr \ Range(h) : M[a] = m[a]
             /\ \A j \in 0..h.memsz - 1 :
                  M[h.vaddr + j] = IF j < n THEN m[StageBase + h.off + j] ELSE 0
<1> DEFINE n == Readable(h)
           dst == h.vaddr
           src == StageBase + h.off
           C == IF n > 0 THEN CopyToAddress(m, dst, src, n) ELSE m
<1> HIDE DEF C
<1>1. /\ dst \in Nat /\ h.off \in Nat /\ h.memsz \in Nat /\ h.filesz \in Nat
      /\ src \in Nat /\ MemSize \in Nat /\ StageBase \in Nat /\ FileLen \in Nat
      /\ dst + h.memsz <= MemSize /\ dst + h.filesz <= MemSize
      /\ StageBase + FileLen <= MemSize
  BY SegConstantsAssumption DEF Hdrs
<1>2. n \in 0..h.filesz /\ h.off + n <= FileLen
  BY SegConstantsAssumption, ReadableFacts
<1>3. src < dst /\ n > 0 => src + n <= dst
  <2> SUFFICES ASSUME src < dst, n > 0, src + n > dst PROVE FALSE
    BY <1>1, <1>2
  <2>1. dst \in Staging
    BY <1>1, <1>2 DEF Staging
  <2>2. dst \in Range(h)
    BY <1>1, <1>2 DEF Range
  <2>3. QED
    BY <2>1, <2>2
<1>4. /\ C \in [Addr -> Nat]
      /\ \A a \in Addr : C[a] = IF a \in dst..dst + n - 1 THEN m[src + (a - dst)]
                                                          ELSE m[a]
  <2>1. CASE n > 0
    <3>1. dst + n <= MemSize /\ src + n <= MemSize
      BY <1>1, <1>2
    <3>2. C = CopyToAddress(m, dst, src, n)
      BY <2>1 DEF C
    <3>3. dst \in Nat /\ src \in Nat /\ n \in Nat /\ (src < dst => src + n <= dst)
      BY <1>1, <1>2, <1>3, <2>1
    <3>4. /\ CopyToAddress(m, dst, src, n) \in [Addr -> Nat]
          /\ \A a \in Addr :
               CopyToAddress(m, dst, src, n)[a] =
                 IF a \in dst..dst + n - 1 THEN m[src + (a - dst)] ELSE m[a]
      <4> HIDE DEF dst, src, n
      <4>1. CopyToAddress(m, dst, src, n) \in [Addr -> Nat]
        BY <3>1, <3>3, CopyType
      <4>2. ASSUME NEW a \in Addr
            PROVE  CopyToAddress(m, dst, src, n)[a] =
                     IF a \in dst..dst + n - 1 THEN m[src + (a - dst)] ELSE m[a]
        BY <3>1, <3>3, CopyAt
      <4>3. QED
        BY <4>1, <4>2
    <3>5. QED
      BY <3>2, <3>4
  <2>2. CASE n = 0
    BY <1>1, <2>2 DEF C
  <2>3. QED
    BY <1>2, <2>1, <2>2
<1>5. LoadSegment(m, dst, src, n, h.memsz) =
        IF h.memsz > n THEN ZeroMemory(C, dst + n, h.memsz - n) ELSE C
  BY DEF LoadSegment, C
<1>6. /\ LoadSegment(m, dst, src, n, h.memsz) \in [Addr -> Nat]
      /\ \A a \in Addr : LoadSegment(m, dst, src, n, h.memsz)[a] =
           IF a \in dst..dst + n - 1 THEN m[src + (a - dst)]
           ELSE IF a \in dst + n..dst + h.memsz - 1 THEN 0 ELSE m[a]
  <2>1. CASE h.memsz > n
    BY <1>1, <1>2, <1>4, <1>5, <2>1, ZeroFacts
  <2>2. CASE ~(h.memsz > n)
    BY <1>1, <1>2, <1>4, <1>5, <2>2
  <2>3. QED
    BY <2>1, <2>2
<1>7. \A a \in Addr \ Range(h) : ~(a \in dst..dst + n - 1)
                                 /\ ~(a \in dst + n..dst + h.memsz - 1)
  BY <1>1, <1>2 DEF Range
<1>8. \A j \in 0..h.memsz - 1 : dst + j \in Addr
  <2> TAKE j \in 0..h.memsz - 1
  <2>1. j \in Nat /\ j < h.memsz
    BY <1>1
  <2>2. dst + j \in 0..MemSize - 1
    BY <1>1, <2>1
  <2>3. QED
    BY <2>2 DEF Addr
<1>9. QED
  BY <1>1, <1>2, <1>6, <1>7, <1>8

-----------------------------------------------------------------------------
LEMMA InitInv == Init => Inv
<1> SUFFICES ASSUME Init PROVE Inv
  OBVIOUS
<1>1. /\ StageBase \in Nat /\ FileLen \in Nat /\ NSeg \in Nat
      /\ MemSize \in Nat /\ StageBase + FileLen <= MemSize
  BY SegConstantsAssumption
<1>2. mem \in [Addr -> Nat]
  BY <1>1 DEF Init, Addr, Staging, FileByte, JUNK
<1>3. StagingIntact
  <2>1. Staging \subseteq Addr
    BY <1>1 DEF Staging, Addr
  <2>2. QED
    BY <2>1 DEF Init, StagingIntact
<1>4. QED
  BY <1>1, <1>2, <1>3 DEF Init, Inv, TypeOK, Stages

(* The loop's exits: Err, the halt loop and Ok write no memory.           *)
LEMMA ExitInv ==
  ASSUME Inv, SegOutOfRange \/ SegHang \/ Finish
  PROVE  Inv'
<1>1. UNCHANGED <<mem, phdrs, k>> /\ stage' \in Stages
  BY DEF SegOutOfRange, SegHang, Finish, Stages
<1>2. QED
  BY <1>1 DEF Inv, TypeOK, ValidImage, Range, StagingIntact, Loaded

(* One iteration that loads header k: in a well-formed image its range    *)
(* misses the staging buffer and every other segment, so the file stays in *)
(* place, earlier segments keep their bytes, and segment k is materialised. *)
LEMMA LoadSegInv ==
  ASSUME Inv, LoadSeg
  PROVE  Inv'
<1> DEFINE hk == phdrs[k]
<1>1. /\ mem \in [Addr -> Nat] /\ phdrs \in [1..NSeg -> Hdrs]
      /\ k \in 1..NSeg /\ stage \in Stages
      /\ NSeg \in Nat /\ FileLen \in Nat /\ StageBase \in Nat
  BY SegConstantsAssumption DEF Inv, TypeOK, LoadSeg
<1>2. /\ hk \in Hdrs /\ hk.off <= FileLen
      /\ mem' = LoadSegment(mem, hk.vaddr, StageBase + hk.off, Readable(hk), hk.memsz)
      /\ k' = k + 1 /\ phdrs' = phdrs /\ stage' = stage
  BY <1>1 DEF LoadSeg
<1>3. CASE ~ValidImage
  <2>1. mem' \in [Addr -> Nat]
    BY <1>1, <1>2, LoadSegmentType
  <2>2. QED
    BY <1>1, <1>2, <1>3, <2>1 DEF Inv, TypeOK, ValidImage, Range
<1>4. CASE ValidImage
  <2>1. /\ hk.filesz <= hk.memsz
        /\ Range(hk) \cap Staging = {}
        /\ \A i \in 1..NSeg \ {k} : Range(phdrs[i]) \cap Range(hk) = {}
    BY <1>1, <1>4 DEF ValidImage
  <2>2. /\ mem' \in [Addr -> Nat]
        /\ \A a \in Addr \ Range(hk) : mem'[a] = mem[a]
        /\ \A j \in 0..hk.memsz - 1 :
             mem'[hk.vaddr + j] = IF j < Readable(hk)
                                 THEN mem[StageBase + hk.off + j] ELSE 0
    BY <1>1, <1>2, <2>1, LoadSegmentFacts
  <2>3. StagingIntact /\ \A i \in 1..k - 1 : Loaded(i)
    BY <1>4 DEF Inv
  <2>4. Staging \subseteq Addr
    BY SegConstantsAssumption DEF Staging, Addr
  <2>5. StagingIntact'
    BY <1>2, <2>1, <2>2, <2>3, <2>4 DEF StagingIntact
  <2>6. ASSUME NEW i \in 1..k - 1 PROVE Loaded(i)'
    <3>1. phdrs[i] \in Hdrs /\ i # k /\ i \in 1..NSeg
      BY <1>1
    <3>2. \A j \in 0..phdrs[i].memsz - 1 :
            /\ phdrs[i].vaddr + j \in Addr
            /\ phdrs[i].vaddr + j \in Range(phdrs[i])
      BY <3>1, SegConstantsAssumption DEF Hdrs, Addr, Range
    <3>3. \A j \in 0..phdrs[i].memsz - 1 :
            mem'[phdrs[i].vaddr + j] = mem[phdrs[i].vaddr + j]
      BY <2>1, <2>2, <3>1, <3>2
    <3>4. QED
      BY <1>2, <2>3, <3>3 DEF Loaded
  <2>7. ASSUME NEW i, i = k PROVE Loaded(i)'
    <3>1. /\ hk.off \in Nat /\ hk.filesz \in Nat /\ hk.memsz \in Nat
          /\ Readable(hk) \in 0..hk.filesz /\ hk.off + Readable(hk) <= FileLen
          /\ Readable(hk) = IF hk.filesz < FileLen - hk.off THEN hk.filesz
                                                        ELSE FileLen - hk.off
      BY <1>2, ReadableFacts, SegConstantsAssumption DEF Hdrs
    <3>2. \A j \in 0..Readable(hk) - 1 :
            mem[StageBase + hk.off + j] = FileByte(hk.off + j)
      <4> TAKE j \in 0..Readable(hk) - 1
      <4>1. QED
        BY <1>2, <2>3, StagedByte DEF StagingIntact
    <3>3. SUFFICES ASSUME NEW j \in 0..hk.memsz - 1
                   PROVE  mem'[hk.vaddr + j] = IF j < Readable(hk)
                                              THEN FileByte(hk.off + j) ELSE 0
      <4>1. phdrs'[i] = hk
        BY <1>2, <2>7
      <4>2. (IF hk.filesz < FileLen - hk.off THEN hk.filesz ELSE FileLen - hk.off)
              = Readable(hk)
        BY <3>1
      <4> HIDE DEF hk
      <4>3. QED
        BY <4>1, <4>2 DEF Loaded
    <3>4. CASE j < Readable(hk)
      <4>1. j \in 0..Readable(hk) - 1
        BY <3>1, <3>4
      <4>2. QED
        BY <2>2, <3>2, <3>4, <4>1
    <3>5. CASE ~(j < Readable(hk))
      BY <2>2, <3>5
    <3>6. QED
      BY <3>4, <3>5
  <2>8. ASSUME NEW i \in 1..k' - 1 PROVE Loaded(i)'
    <3>1. i \in 1..k - 1 \/ i = k
      BY <1>1, <1>2
    <3>2. CASE i \in 1..k - 1
      BY <2>6, <3>2
    <3>3. CASE i = k
      BY <2>7, <3>3, Zenon
    <3>4. QED
      BY <3>1, <3>2, <3>3
  <2>9. ValidImage'
    BY <1>2, <1>4 DEF ValidImage, Range
  <2>10. QED
    BY <1>1, <1>2, <2>2, <2>5, <2>8 DEF Inv, TypeOK

<1>5. QED
  BY <1>3, <1>4

LEMMA NextInv == Inv /\ [Next]_vars => Inv'
<1> SUFFICES ASSUME Inv, [Next]_vars PROVE Inv'
  OBVIOUS
<1>1. CASE UNCHANGED vars
  BY <1>1 DEF vars, Inv, TypeOK, ValidImage, Range, StagingIntact, Loaded
<1>2. QED
  BY <1>1, ExitInv, LoadSegInv DEF Next

THEOREM InvHolds == Spec => []Inv
BY InitInv, NextInv, PTL DEF Spec

(* SegmentsMaterialized for every memory, staging buffer, file length and *)
(* header table: in a well-formed image, every segment load_segments has   *)
(* handed to main()'s closure holds min(p_filesz, len - p_offset) bytes of *)
(* the staged file followed by zeros up to p_memsz, whatever the later     *)
(* segments write, because none of them writes over the staged file.       *)
THEOREM Materialized == Spec => []SegmentsMaterialized
<1>1. Inv => SegmentsMaterialized
  BY DEF Inv, SegmentsMaterialized, Loaded
<1>2. QED
  BY InvHolds, <1>1, PTL

=============================================================================
