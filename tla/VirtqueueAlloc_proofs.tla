------------------------- MODULE VirtqueueAlloc_proofs -------------------------
(***************************************************************************)
(* Proofs about VirtqueueAlloc: for every queue size and chain length the  *)
(* allocator's state stays well typed.  The walk of free_desc_chain is not *)
(* reasoned about: the proof needs only that the stop it ends at is a      *)
(* position of the walk, and that a write through an index outside the    *)
(* table changes nothing.                                                  *)
(***************************************************************************)
EXTENDS VirtqueueAlloc, WellFoundedInduction, TLAPS

-----------------------------------------------------------------------------
(* A non-empty set of naturals has a least element.                       *)
LEMMA NatMin ==
  ASSUME NEW T \in SUBSET Nat, T # {}
  PROVE  \E x \in T : \A y \in T : x <= y
<1>1. PICK x \in T : \A y \in T : ~(<<y, x>> \in OpToRel(<, Nat))
  BY NatLessThanWellFounded, WFMin
<1>2. \A y \in T : ~(y < x)
  <2> TAKE y \in T
  <2>1. <<y, x>> \in Nat \X Nat
    OBVIOUS
  <2>2. y < x => <<y, x>> \in OpToRel(<, Nat)
    BY <2>1, Zenon DEF OpToRel
  <2>3. QED
    BY <1>1, <2>2
<1>3. QED
  BY <1>2

(* The u16 modulus exceeds every queue size, used without its value:     *)
(* the SMT encoding of an interval with a large literal bound overflows.  *)
LEMMA U16Facts == U16 \in Nat /\ 1024 < U16
BY DEF U16

-----------------------------------------------------------------------------
LEMMA TypeInit == Init => TypeOK
<1> SUFFICES ASSUME Init PROVE TypeOK
  OBVIOUS
<1> USE QSizeAssumption, AllocBoundsAssumption
<1>1. next \in [Idx -> 0..QSize]
  BY DEF Init, Idx
<1>2. numFree \in 0..U16 - 1
  BY U16Facts DEF Init
<1>3. freeHead \in Idx
  BY DEF Init, Idx
<1>4. ops \in 0..MaxOps
  BY DEF Init
<1>5. hung \in BOOLEAN
  BY DEF Init
<1>6. chains \subseteq [head : Idx, descs : SUBSET Idx]
  BY DEF Init
<1>7. QED
  BY <1>1, <1>2, <1>3, <1>4, <1>5, <1>6 DEF TypeOK

(* alloc_desc_chain(num): the links it writes are indices or queue_size,  *)
(* the new free head wraps into the table and num_free does not go below  *)
(* zero, whether the chain fits or runs past the table's end.             *)
LEMMA AllocType ==
  ASSUME TypeOK, NEW num \in ChainLens, AllocDescChain(num)
  PROVE  TypeOK'
<1> USE QSizeAssumption, AllocBoundsAssumption
<1> DEFINE h == freeHead
           last == h + num - 1
<1>1. /\ num \in Nat \ {0} /\ num <= QSize /\ numFree >= num
      /\ ops' = ops + 1 /\ ops < MaxOps /\ hung' = hung
  BY ChainLensAssumption DEF AllocDescChain
<1>2. ops' \in 0..MaxOps /\ hung' \in BOOLEAN
  BY <1>1 DEF TypeOK
<1>3. CASE last < QSize
  <2>1. /\ next' = [i \in Idx |-> IF i \in h..last - 1 THEN i + 1
                                  ELSE IF i = last THEN 0
                                  ELSE next[i]]
        /\ freeHead' = NextFree(last)
        /\ numFree' = numFree - num
        /\ chains' = chains \cup {[head |-> h, descs |-> h..last]}
    BY <1>3 DEF AllocDescChain
  <2>2. next' \in [Idx -> 0..QSize]
    BY <1>1, <1>3, <2>1 DEF TypeOK, Idx
  <2>3. freeHead' \in Idx
    BY <1>1, <2>1 DEF TypeOK, Idx, NextFree
  <2>4. numFree' \in 0..U16 - 1
    BY <1>1, <2>1, U16Facts DEF TypeOK
  <2>5. chains' \subseteq [head : Idx, descs : SUBSET Idx]
    BY <1>1, <1>3, <2>1 DEF TypeOK, Idx
  <2>6. QED
    BY <1>2, <2>2, <2>3, <2>4, <2>5 DEF TypeOK
<1>4. CASE ~(last < QSize)
  <2>1. /\ next' = [i \in Idx |-> IF i >= h THEN i + 1 ELSE next[i]]
        /\ UNCHANGED <<freeHead, numFree, chains>>
    BY <1>4 DEF AllocDescChain
  <2>2. next' \in [Idx -> 0..QSize]
    BY <2>1 DEF TypeOK, Idx
  <2>3. QED
    BY <1>2, <2>1, <2>2 DEF TypeOK
<1>5. QED
  BY <1>3, <1>4

(* free_desc_chain(head): the walk's first stop is one of its positions,  *)
(* so num_free grows by a count and wraps as a u16; the link it writes     *)
(* is the old free head, and the new free head is the chain's head.        *)
LEMMA FreeType ==
  ASSUME TypeOK, NEW c \in chains, FreeDescChain(c)
  PROVE  TypeOK'
<1> USE QSizeAssumption, AllocBoundsAssumption
<1> DEFINE p == WalkFrom(c.head)
           stops == {j \in 0..QSize : WalkStops(p, j)}
           last == CHOOSE k \in stops : \A j \in stops : k <= j
           tail == p[last]
<1>1. /\ ops' = ops + 1 /\ ops < MaxOps /\ chains' = chains \ {c}
      /\ c.head \in Idx
  BY DEF FreeDescChain, TypeOK
<1>2. /\ ops' \in 0..MaxOps
      /\ chains' \subseteq [head : Idx, descs : SUBSET Idx]
  BY <1>1 DEF TypeOK
<1>3. CASE stops = {}
  <2>1. hung' = TRUE /\ UNCHANGED <<next, freeHead, numFree>>
    BY <1>3 DEF FreeDescChain
  <2>2. QED
    BY <1>2, <2>1 DEF TypeOK
<1>4. CASE stops # {}
  <2>1. /\ next' = IF tail < QSize THEN [next EXCEPT ![tail] = freeHead]
                                   ELSE next
        /\ freeHead' = c.head
        /\ numFree' = (numFree + last + 1) % U16
        /\ hung' = hung
    BY <1>4 DEF FreeDescChain
  <2>2. last \in stops
    <3>1. stops \in SUBSET Nat
      OBVIOUS
    <3>2. \E k \in stops : \A j \in stops : k <= j
      <4> HIDE DEF stops
      <4>1. QED
        BY <1>4, <3>1, NatMin
    <3>3. QED
      BY <3>2, Zenon
  <2>3. last \in Nat
    BY <2>2
  <2>4. next' \in [Idx -> 0..QSize]
    <3>1. freeHead \in 0..QSize
      BY DEF TypeOK, Idx
    <3>2. [next EXCEPT ![tail] = freeHead] \in [Idx -> 0..QSize]
      BY <3>1 DEF TypeOK
    <3>3. QED
      BY <2>1, <3>2 DEF TypeOK
  <2>5. numFree' \in 0..U16 - 1
    BY <2>1, <2>3, U16Facts DEF TypeOK
  <2>6. QED
    BY <1>1, <1>2, <2>1, <2>4, <2>5 DEF TypeOK
<1>5. QED
  BY <1>3, <1>4

LEMMA TypeStep == TypeOK /\ [Next]_vars => TypeOK'
<1> SUFFICES ASSUME TypeOK, [Next]_vars PROVE TypeOK'
  OBVIOUS
<1>1. CASE \E n \in ChainLens : AllocDescChain(n)
  BY <1>1, AllocType
<1>2. CASE \E c \in chains : FreeDescChain(c)
  BY <1>2, FreeType
<1>3. CASE UNCHANGED vars
  BY <1>3 DEF vars, TypeOK
<1>4. QED
  BY <1>1, <1>2, <1>3 DEF Next

(* For every queue size in 1..1024, chain lengths and bounds: the next    *)
(* fields stay indices or queue_size, free_head stays an index, num_free a *)
(* u16, and every chain the client holds names indices of the table, also *)
(* after an allocation that runs past the table's end.                     *)
THEOREM TypeCorrect == Spec => []TypeOK
BY TypeInit, TypeStep, PTL DEF Spec

=============================================================================
