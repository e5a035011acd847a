------------------------- MODULE ElfLoadSegments_proofs -------------------------
(***************************************************************************)
(* Proofs about ElfLoadSegments: for every usize width and every header    *)
(* values, in either build, load_segments hands load_func exactly the      *)
(* clamped slice data[p_offset .. p_offset + min(p_filesz, len - p_offset)] *)
(* and never bytes past the slice.                                         *)
(***************************************************************************)
EXTENDS ElfLoadSegments, TLAPS

Inv == TypeOK /\ SegmentYieldContract

-----------------------------------------------------------------------------
(* usize addition of two words: the wrapped sum is the true sum when it   *)
(* fits, and the true sum less 2^Width when it overflows.                  *)
LEMMA PlusFacts ==
  ASSUME NEW a \in 0..Word - 1, NEW b \in 0..Word - 1, Word \in Nat \ {0}
  PROVE  /\ ~Overflows(a, b) => Plus(a, b) = a + b
         /\ Overflows(a, b) => Plus(a, b) = a + b - Word
         /\ Plus(a, b) \in 0..Word - 1
BY DEF Plus, Overflows

LEMMA WordFacts == Word \in Nat \ {0, 1}
BY ElfConstantsAssumption

(* The heart of the contract.  A segment reaches load_func only past the  *)
(* offset check, the checked build's overflow panic and the slice bounds  *)
(* check; whatever the wrap of p_offset + p_filesz, the size it is given   *)
(* is min(p_filesz, len - p_offset) and the slice ends inside the data.    *)
LEMMA YieldSize ==
  ASSUME NEW l \in 0..Word - 1, NEW off \in 0..Word - 1,
         NEW fsz \in 0..Word - 1, NEW chk \in BOOLEAN,
         Word \in Nat \ {0, 1},
         off <= l,
         ~(chk /\ Overflows(off, fsz)),
         NEW end, end = Plus(off, fsz),
         NEW size, size = IF end > l THEN l - off ELSE fsz,
         ~(size > 0 /\ (Plus(off, size) < off \/ Plus(off, size) > l))
  PROVE  /\ size = IF fsz < l - off THEN fsz ELSE l - off
         /\ off + size <= l
         /\ size \in 0..Word - 1
<1>1. CASE ~Overflows(off, fsz)
  <2>1. end = off + fsz
    BY <1>1, PlusFacts
  <2>2. QED
    BY <2>1
<1>2. CASE Overflows(off, fsz)
  <2>1. end = off + fsz - Word /\ off + fsz >= Word
    BY <1>2, PlusFacts DEF Overflows
  <2>2. CASE end > l
    BY <2>1, <2>2
  <2>3. CASE ~(end > l)
    <3>1. size = fsz /\ fsz > 0
      BY <2>1, <2>3
    <3>2. Plus(off, size) = end
      BY <3>1
    <3>3. Plus(off, size) < off
      BY <2>1, <3>2
    <3>4. QED
      BY <3>1, <3>3
  <2>4. QED
    BY <2>2, <2>3
<1>3. QED
  BY <1>1, <1>2

-----------------------------------------------------------------------------
LEMMA InitInv == Init => Inv
<1> SUFFICES ASSUME Init PROVE Inv
  OBVIOUS
<1>1. PhNums \subseteq Nat
  BY ElfConstantsAssumption
<1>2. QED
  BY <1>1 DEF Init, Inv, TypeOK, SegmentYieldContract

LEMMA NewInv ==
  ASSUME Inv, New
  PROVE  Inv'
BY DEF Inv, New, TypeOK, SegmentYieldContract

LEMMA TableInv ==
  ASSUME Inv, Table
  PROVE  Inv'
BY DEF Inv, Table, TypeOK, SegmentYieldContract

(* A loop iteration: the header read stays a word-sized range, the index  *)
(* stays within e_phnum, and a yielded segment obeys the contract.        *)
LEMMA StepInv ==
  ASSUME Inv, Step
  PROVE  Inv'
<1> USE ElfConstantsAssumption, WordFacts
<1>1. /\ stage = "loop"
      /\ UNCHANGED <<len, phoff, phnum, phentsize, checked>>
  BY DEF Step
<1>2. /\ len \in 0..Word - 1 /\ phoff \in 0..Word - 1
      /\ phnum \in 0..Word - 1 /\ phentsize \in 0..Word - 1
      /\ i \in 0..phnum
  BY DEF Inv, TypeOK, Word
<1>3. CASE LoopDone(i)
  BY <1>1, <1>3 DEF Step, Inv, TypeOK, SegmentYieldContract
<1>4. CASE ~LoopDone(i)
  <2> DEFINE at == i * phentsize
             po == Plus(phoff, at)
  <2>1. i < phnum
    BY <1>2, <1>4 DEF LoopDone
  <2>2. at \in Nat /\ po \in 0..Word - 1
    BY <1>2 DEF Plus
  <2>3. CASE checked /\ (Overflows(phoff, at) \/ Overflows(po, phentsize)
                         \/ Overflows(po, PhdrSize))
    <3>1. stage' = "panic" /\ UNCHANGED <<i, reads, yields>>
      BY <1>4, <2>3 DEF Step
    <3>2. QED
      BY <1>1, <3>1 DEF Inv, TypeOK, SegmentYieldContract
  <2>4. CASE ~(checked /\ (Overflows(phoff, at) \/ Overflows(po, phentsize)
                           \/ Overflows(po, PhdrSize)))
             /\ (Plus(po, phentsize) > len \/ Plus(po, PhdrSize) > len)
    <3>1. stage' = "err" /\ UNCHANGED <<i, reads, yields>>
      BY <1>4, <2>4 DEF Step
    <3>2. QED
      BY <1>1, <3>1 DEF Inv, TypeOK, SegmentYieldContract
  <2>5. CASE ~(checked /\ (Overflows(phoff, at) \/ Overflows(po, phentsize)
                           \/ Overflows(po, PhdrSize)))
             /\ ~(Plus(po, phentsize) > len \/ Plus(po, PhdrSize) > len)
    <3>1. /\ reads' = reads \cup {[lo |-> po, hi |-> po + PhdrSize]}
          /\ i' = i + 1
          /\ \E ptype \in {PT_LOAD, 0}, off \in SegOffs, fsz \in SegSizes :
               LET end == Plus(off, fsz)
                   size == Readable(off, end, fsz)
                   stop == Plus(off, size)
               IN IF ptype # PT_LOAD
                    THEN UNCHANGED <<stage, yields>>
                  ELSE IF off > len
                    THEN stage' = "err" /\ UNCHANGED yields
                  ELSE IF checked /\ Overflows(off, fsz)
                    THEN stage' = "panic" /\ UNCHANGED yields
                  ELSE IF size > 0 /\ (stop < off \/ stop > len)
                    THEN stage' = "panic" /\ UNCHANGED yields
                  ELSE /\ yields' = yields \cup
                            {[off |-> off, size |-> size, filesz |-> fsz]}
                       /\ UNCHANGED stage
      BY <1>4, <2>5 DEF Step
    <3>2. PICK ptype \in {PT_LOAD, 0}, off \in SegOffs, fsz \in SegSizes :
               LET end == Plus(off, fsz)
                   size == Readable(off, end, fsz)
                   stop == Plus(off, size)
               IN IF ptype # PT_LOAD
                    THEN UNCHANGED <<stage, yields>>
                  ELSE IF off > len
                    THEN stage' = "err" /\ UNCHANGED yields
                  ELSE IF checked /\ Overflows(off, fsz)
                    THEN stage' = "panic" /\ UNCHANGED yields
                  ELSE IF size > 0 /\ (stop < off \/ stop > len)
                    THEN stage' = "panic" /\ UNCHANGED yields
                  ELSE /\ yields' = yields \cup
                            {[off |-> off, size |-> size, filesz |-> fsz]}
                       /\ UNCHANGED stage
      BY <3>1
    <3> DEFINE end == Plus(off, fsz)
               size == Readable(off, end, fsz)
    <3>3. off \in 0..Word - 1 /\ fsz \in 0..Word - 1
      BY DEF Word
    <3>4. /\ i' \in 0..phnum'
          /\ reads' \subseteq [lo : 0..Word - 1, hi : 0..Word + PhdrSize]
      BY <1>1, <1>2, <2>1, <2>2, <3>1 DEF Inv, TypeOK, PhdrSize
    <3>5. stage' \in {"new", "table", "loop", "ok", "err", "panic"}
      BY <1>1, <3>2
    <3>6. CASE ptype = PT_LOAD /\ ~(off > len) /\ ~(checked /\ Overflows(off, fsz))
               /\ ~(size > 0 /\ (Plus(off, size) < off \/ Plus(off, size) > len))
      <4>1. yields' = yields \cup {[off |-> off, size |-> size, filesz |-> fsz]}
        BY <3>2, <3>6
      <4>2. /\ size = IF fsz < len - off THEN fsz ELSE len - off
            /\ off + size <= len
            /\ size \in 0..Word - 1
        <5>1. size = IF end > len THEN len - off ELSE fsz
          BY DEF Readable
        <5>2. QED
          BY <1>2, <3>3, <3>6, <5>1, YieldSize DEF Inv, TypeOK
      <4>3. QED
        BY <1>1, <3>3, <3>4, <3>5, <4>1, <4>2
           DEF Inv, TypeOK, SegmentYieldContract
    <3>7. CASE ~(ptype = PT_LOAD /\ ~(off > len) /\ ~(checked /\ Overflows(off, fsz))
                 /\ ~(size > 0 /\ (Plus(off, size) < off \/ Plus(off, size) > len)))
      <4>1. UNCHANGED yields
        BY <3>2, <3>7
      <4>2. QED
        BY <1>1, <3>4, <3>5, <4>1 DEF Inv, TypeOK, SegmentYieldContract
    <3>8. QED
      BY <3>6, <3>7
  <2>6. QED
    BY <2>3, <2>4, <2>5
<1>5. QED
  BY <1>3, <1>4

LEMMA NextInv == Inv /\ [Next]_vars => Inv'
<1> SUFFICES ASSUME Inv, [Next]_vars PROVE Inv'
  OBVIOUS
<1>1. CASE UNCHANGED vars
  BY <1>1 DEF vars, Inv, TypeOK, SegmentYieldContract
<1>2. QED
  BY <1>1, NewInv, TableInv, StepInv DEF Next

THEOREM InvHolds == Spec => []Inv
BY InitInv, NextInv, PTL DEF Spec

(* The parser's state stays well typed for every usize width: the loop    *)
(* index within e_phnum, every header read a word-sized range and every   *)
(* yielded offset and size a usize.                                        *)
THEOREM TypeCorrect == Spec => []TypeOK
BY InvHolds, PTL DEF Inv

(* SegmentYieldContract for every usize width, slice length and header    *)
(* values, in a build with overflow checks and in one without: the slice   *)
(* load_segments passes to load_func is data[p_offset ..                   *)
(* p_offset + min(p_filesz, len - p_offset)] and ends inside the data.     *)
THEOREM YieldContract == Spec => []SegmentYieldContract
BY InvHolds, PTL DEF Inv

=============================================================================
