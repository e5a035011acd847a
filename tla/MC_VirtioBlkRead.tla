--------------------------- MODULE MC_VirtioBlkRead ---------------------------
(* Small instances of VirtioBlkRead for TLC.                                *)
EXTENDS VirtioBlkRead

\* Two readable sectors and one beyond the capacity.
MC_Sectors == {0, 1, 2}
MC_Capacity == 2

\* Loop bounds of device.rs scaled down with their order kept:
\* NoProgressAttempt < MaxAttempts, as 2000 < 5000.
MC_MaxRetries == 2
MC_MaxAttempts == 4
MC_NoProgressAttempt == 1
MC_MaxValidAttempts == 2
MC_MaxRingRetries == 2
MC_MaxReads == 2
=============================================================================
