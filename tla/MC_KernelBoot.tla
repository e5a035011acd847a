------------------------------ MODULE MC_KernelBoot ------------------------------
(* Scaled sizes with the code's proportions: 3 sectors scanned, 4 staged, *)
(* a buffer of 5; disks smaller than, equal to and larger than the staged *)
(* range.                                                                  *)
EXTENDS KernelBoot

MC_Capacities == {2, 4, 5}

=============================================================================
