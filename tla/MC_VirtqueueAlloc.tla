--------------------------- MODULE MC_VirtqueueAlloc ---------------------------
(* A queue of four descriptors and chains of one to three of them, the    *)
(* chain lengths of the read path (spec 4.3: three descriptors).          *)
EXTENDS VirtqueueAlloc

MC_QSize == 4
MC_ChainLens == {1, 2, 3}
MC_MaxOps == 10

=============================================================================
