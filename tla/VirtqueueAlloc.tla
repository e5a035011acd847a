---------------------------- MODULE VirtqueueAlloc ----------------------------
(***************************************************************************)
(* The descriptor allocator of the split virtqueue                         *)
(* (src/library/rustsbi/src/virtio/queue.rs: Virtqueue::new,               *)
(* alloc_desc_chain, free_desc_chain, get_descriptor_ptr), driven by a     *)
(* client that allocates chains and later frees each chain it holds by     *)
(* its head, once.  Only the next fields of the descriptor table matter    *)
(* to the allocator; addresses, lengths and flags are left out.            *)
(***************************************************************************)
EXTENDS Naturals, FiniteSets

CONSTANTS
  QSize,      \* queue_size passed to Virtqueue::new
  ChainLens,  \* chain lengths the client asks alloc_desc_chain for
  MaxHeld,    \* bound: chains the client holds at the same time
  MaxOps      \* bound: alloc and free calls in a run

ASSUME QSizeAssumption == QSize \in 1..1024
ASSUME ChainLensAssumption == ChainLens \subseteq Nat \ {0}
ASSUME AllocBoundsAssumption == MaxHeld \in Nat /\ MaxOps \in Nat

Idx == 0..QSize - 1           \* valid descriptor indices
U16 == 65536

VARIABLES
  next,      \* next field of each descriptor; may be written as QSize
  freeHead,  \* vq.free_head
  numFree,   \* vq.num_free (u16)
  chains,    \* chains the client holds: [head, descs] as alloc returned them
  hung,      \* free_desc_chain is looping forever on a next cycle
  ops        \* calls made so far

vars == <<next, freeHead, numFree, chains, hung, ops>>

-----------------------------------------------------------------------------
(* Virtqueue::new: descriptor i links to i + 1, the last one to 0          *)
(* (queue.rs:95-106); free_head 0, num_free size (queue.rs:116-125).       *)
Init ==
  /\ next = [i \in Idx |-> IF i = QSize - 1 THEN 0 ELSE i + 1]
  /\ freeHead = 0
  /\ numFree = QSize
  /\ chains = {}
  /\ hung = FALSE
  /\ ops = 0

(* The free head after a chain ending at last: the index after it,        *)
(* wrapped at the queue size (queue.rs:246).  The mutant forgets the wrap. *)
NextFreeNoWrap(last) == last + 1
NextFree(last) == (last + 1) % QSize

(* alloc_desc_chain(num) with num valid and num_free >= num: walk         *)
(* contiguous indices from free_head, linking each to its successor and    *)
(* the last to 0.  get_descriptor_ptr refuses an index >= queue_size, and  *)
(* the call then returns DmaError with the links written so far.           *)
AllocDescChain(num) ==
  /\ ~hung /\ ops < MaxOps /\ Cardinality(chains) < MaxHeld
  /\ num <= QSize /\ numFree >= num
  /\ ops' = ops + 1
  /\ LET h == freeHead
         last == h + num - 1
     IN IF last < QSize
          THEN /\ next' = [i \in Idx |-> IF i \in h..last - 1 THEN i + 1
                                         ELSE IF i = last THEN 0
                                         ELSE next[i]]
               /\ freeHead' = NextFree(last)
               /\ numFree' = numFree - num
               /\ chains' = chains \cup {[head |-> h, descs |-> h..last]}
          ELSE /\ next' = [i \in Idx |-> IF i >= h THEN i + 1 ELSE next[i]]
               /\ UNCHANGED <<freeHead, numFree, chains>>
  /\ UNCHANGED hung

(* The indices free_desc_chain(head) visits: head, then next, ...         *)
(* position j of the walk, for j up to QSize.                              *)
WalkFrom(head) ==
  LET p[j \in 0..QSize] ==
        IF j = 0 THEN head
        ELSE IF p[j - 1] < QSize THEN next[p[j - 1]] ELSE p[j - 1]
  IN p

(* The walk stops at position j when get_descriptor_ptr fails there or    *)
(* the descriptor's next is 0 (queue.rs:353-364).                          *)
WalkStops(p, j) == p[j] >= QSize \/ next[p[j]] = 0

(* free_desc_chain(head) of a chain the client holds: count the visited   *)
(* descriptors, link the last one to free_head, make head the free head    *)
(* (queue.rs:348-374).  With no stop among QSize + 1 positions the walk   *)
(* has entered a cycle, and the loop never ends.                           *)
FreeDescChain(c) ==
  /\ ~hung /\ ops < MaxOps
  /\ c \in chains
  /\ ops' = ops + 1
  /\ chains' = chains \ {c}
  /\ LET p == WalkFrom(c.head)
         stops == {j \in 0..QSize : WalkStops(p, j)}
     IN IF stops = {}
          THEN /\ hung' = TRUE
               /\ UNCHANGED <<next, freeHead, numFree>>
          ELSE LET last == CHOOSE k \in stops : \A j \in stops : k <= j
                   tail == p[last]
               IN /\ next' = IF tail < QSize
                               THEN [next EXCEPT ![tail] = freeHead]
                               ELSE next
                  /\ freeHead' = c.head
                  /\ numFree' = (numFree + last + 1) % U16
                  /\ UNCHANGED hung

Next ==
  \/ \E n \in ChainLens : AllocDescChain(n)
  \/ \E c \in chains : FreeDescChain(c)

Spec == Init /\ [][Next]_vars

-----------------------------------------------------------------------------
TypeOK ==
  /\ next \in [Idx -> 0..QSize]
  /\ freeHead \in Idx
  /\ numFree \in 0..U16 - 1
  /\ chains \subseteq [head : Idx, descs : SUBSET Idx]
  /\ hung \in BOOLEAN
  /\ ops \in 0..MaxOps

(* Descriptors the client holds.                                          *)
HeldDescs == UNION {c.descs : c \in chains}

(* alloc_desc_chain hands out free descriptors only (spec 4.2): no        *)
(* descriptor is in two chains the client holds at once.                  *)
NoDoubleAllocation ==
  \A c, d \in chains : c # d => c.descs \cap d.descs = {}

=============================================================================
