---------------------------- MODULE MC_TrapHandler ----------------------------
(* Small instances of TrapHandler for TLC.                                 *)
EXTENDS TrapHandler

\* Programs of three instructions: enough for an ecall, a fault and an
\* ordinary instruction in every order.
MC_ProgLen == 3

\* The ids the handler dispatches on, plus 0x10, the base extension id of
\* the SBI specification, which the handler does not know.
MC_Eids == {EID_BASE, EID_CONSOLE, 16, EID_SRST, EID_TIME, EID_BIND}
MC_Fids == {0, 1}

\* Two a0 values with the same low byte.
MC_Args == {65, 321}
=============================================================================
