--------------------------- MODULE MC_ElfLoadSegments ---------------------------
(* An 8-bit usize, so that the wrap of an addition is reachable with the   *)
(* code's header sizes of 64 and 56 bytes: offsets near the top of the     *)
(* address range, sizes that run past the slice, and a zero e_phentsize.   *)
EXTENDS ElfLoadSegments

MC_Lens == {64, 200}
MC_PhOffs == {64, 250}
MC_PhNums == {1, 2}
MC_PhEntSizes == {0, 56}
MC_SegOffs == {0, 100, 250}
MC_SegSizes == {0, 50, 200}

=============================================================================
