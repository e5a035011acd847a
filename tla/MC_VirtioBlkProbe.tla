--------------------------- MODULE MC_VirtioBlkProbe ---------------------------
(* Three MMIO bases, so that two block devices and an empty slot can sit  *)
(* on the bus together; found_devices keeps its size of 8.  Capacities:   *)
(* zero, a plausible value and one above the plausibility limit.          *)
EXTENDS VirtioBlkProbe

MC_NBases == 3
MC_Capacities == {0, 4096, 20000000}

=============================================================================
