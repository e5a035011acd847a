---------------------------- MODULE MC_SegmentLoad ----------------------------
(* A 14-byte memory: the low page below 2, a 4-byte staged file at 2..5,  *)
(* and room for two segments at 6..8 and 9..11 that touch, so a BSS fill  *)
(* one byte too long reaches the next segment.  A p_offset of 2 with a     *)
(* p_filesz of 3 runs past the file (the clamp), 5 is past it (Err), and   *)
(* a p_vaddr of 0 is below the low limit (the halt).                       *)
EXTENDS SegmentLoad

MC_MemSize == 14
MC_StageBase == 2
MC_FileLen == 4
MC_LowLimit == 2
MC_NSeg == 2
MC_Vaddrs == {0, 6, 9}
MC_Offs == {0, 2, 5}
MC_FileSizes == {0, 1, 3}
MC_MemSizes == {1, 3}

(* copy_to_address's loop as the code runs it, one byte store per step.   *)
CopyLoop(m, dst, src, n) ==
  LET c[i \in 0..n] ==
        IF i = 0 THEN m
        ELSE [c[i - 1] EXCEPT ![dst + i - 1] = c[i - 1][src + i - 1]]
  IN  c[n]

(* The memory that holds its own address everywhere.  The loop only moves  *)
(* bytes: each byte it leaves is m's byte at an address that depends on    *)
(* dst, src and n alone, so the two forms agree on every memory when they  *)
(* agree on this one.                                                      *)
AddressMemory == [a \in 0..MC_MemSize - 1 |-> a]

(* The closed form of CopyToAddress is what copy_to_address's loop leaves, *)
(* for every destination, source and length inside this memory, the      *)
(* overlapping copies forward and backward included.                      *)
ASSUME CopyMatchesLoop ==
  \A dst, src \in 0..MC_MemSize - 1, n \in 0..MC_MemSize :
    dst + n <= MC_MemSize /\ src + n <= MC_MemSize =>
      CopyLoop(AddressMemory, dst, src, n) =
        CopyToAddress(AddressMemory, dst, src, n)
=============================================================================
