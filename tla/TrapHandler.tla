----------------------------- MODULE TrapHandler -----------------------------
(***************************************************************************)
(* The machine-mode trap handler of src/library/rustsbi/src/trap/handler.rs *)
(* (trap_handler and the handlers it dispatches to), serving a kernel that *)
(* runs a program of a few instructions on the same hart.                  *)
(*                                                                         *)
(* The hart takes a trap the RISC-V way: mcause gets the exception code,   *)
(* mepc the address of the trapping instruction, and the hart enters the   *)
(* handler.  trap_handler returns the address to resume at; the entry      *)
(* stub that writes it back to mepc and executes mret is not part of the   *)
(* repository, and is taken to do exactly that.  Addresses are byte        *)
(* offsets from the kernel's first instruction, 4 bytes per instruction.   *)
(*                                                                         *)
(* The answer handle_sbi_call_direct computes is written to the handler's *)
(* own a0 and a1 by inline asm, after which trap_handler returns the new   *)
(* mepc in a0; what the kernel finds in a0 and a1 depends on that missing  *)
(* stub.  The model keeps the pair the handler computes (answer) and       *)
(* leaves the kernel's registers out.  Messages printed are left out; the  *)
(* byte the console call prints is kept.                                    *)
(***************************************************************************)
EXTENDS Integers, Sequences

CONSTANTS ProgLen, Eids, Fids, Args, Privs

ASSUME TrapConstantsAssumption ==
  /\ ProgLen \in Nat
  /\ Eids \subseteq Nat /\ Fids \subseteq Nat /\ Args \subseteq Nat
  /\ Privs \subseteq {"S", "M"}

EID_BASE == 0                \* 0x00, dispatched as the base extension
EID_CONSOLE == 1
EID_SRST == 1397904212       \* 0x53525354
EID_TIME == 1414090053       \* 0x54494D45
EID_BIND == 1145981250       \* 0x444E4942
SBI_ERR == -1                \* 0xFFFFFFFFFFFFFFFF as the u64 returned
CAUSE_FETCH_FAULT == 1
CAUSE_ILLEGAL == 2
CAUSE_ECALL_S == 9
CAUSE_ECALL_M == 11

Instrs ==
  [kind : {"op", "fetchfault", "illegal"}, eid : {0}, fid : {0}, arg : {0}]
    \cup [kind : {"ecall"}, eid : Eids, fid : Fids, arg : Args]

VARIABLES
  prog,     \* the kernel's program (fixed)
  priv,     \* the privilege the kernel runs in (fixed)
  hart,     \* "kernel", "trap" (in trap_handler) or "off" (shutdown loop)
  pc,       \* byte offset of the kernel's next instruction
  mcause,   \* mcause of the trap being handled
  mepc,     \* mepc of the trap being handled
  console,  \* bytes written to the UART by print_char
  answer    \* <<error, value>> the last SBI call left in a0, a1

vars == <<prog, priv, hart, pc, mcause, mepc, console, answer>>

-----------------------------------------------------------------------------
Init ==
  /\ prog \in [1..ProgLen -> Instrs]
  /\ priv \in Privs
  /\ hart = "kernel"
  /\ pc = 0
  /\ mcause = 0 /\ mepc = 0
  /\ console = <<>>
  /\ answer = <<0, 0>>

(* The exception code the hart writes to mcause when ins traps.           *)
CauseOf(ins) ==
  IF ins.kind = "fetchfault" THEN CAUSE_FETCH_FAULT
  ELSE IF ins.kind = "illegal" THEN CAUSE_ILLEGAL
  ELSE IF priv = "S" THEN CAUSE_ECALL_S
  ELSE CAUSE_ECALL_M

(* The kernel's hart: an ordinary instruction completes; an ecall, a fetch *)
(* fault or an illegal instruction traps to machine mode (the privileged  *)
(* architecture, not code of the repository).                              *)
KernelStep ==
  /\ hart = "kernel" /\ pc \div 4 < ProgLen
  /\ LET ins == prog[pc \div 4 + 1]
     IN IF ins.kind = "op"
          THEN pc' = pc + 4 /\ UNCHANGED <<hart, mcause, mepc>>
          ELSE /\ hart' = "trap"
               /\ mepc' = pc
               /\ mcause' = CauseOf(ins)
               /\ UNCHANGED pc
  /\ UNCHANGED <<prog, priv, console, answer>>

(* handle_base_extension, handle_console_extension, handle_timer_extension *)
(* and handle_vendor_extension: the pair returned for a function id.       *)
HandleBase(fid) ==
  CASE fid = 0 -> <<0, 2>> [] fid = 1 -> <<0, 1381192514>>
    [] fid = 2 -> <<0, 1>> [] OTHER -> <<SBI_ERR, 0>>
HandleConsole(fid) ==
  CASE fid = 0 -> <<0, 0>> [] fid = 1 -> <<0, SBI_ERR>> [] OTHER -> <<SBI_ERR, 0>>
HandleTimer(fid) == IF fid = 0 THEN <<0, 0>> ELSE <<SBI_ERR, 0>>
HandleVendor(fid) == <<SBI_ERR, 0>>

(* The match on the extension id in handle_sbi_call_direct.               *)
SbiAnswer(eid, fid) ==
  CASE eid = EID_BASE -> HandleBase(fid)
    [] eid = EID_CONSOLE -> HandleConsole(fid)
    [] eid = EID_TIME -> HandleTimer(fid)
    [] eid = EID_BIND -> HandleVendor(fid)
    [] OTHER -> <<SBI_ERR, 0>>

(* The address handle_sbi_call_direct, handle_mmode_ecall_direct and the  *)
(* fetch-fault branch of handle_unknown_trap_direct return: past the       *)
(* trapping instruction.  The mutants forget to step past it, or step     *)
(* past a compressed (2-byte) instruction.                                 *)
ResumeAtEcall(e) == e
ResumeCompressed(e) == e + 2
Resume(e) == e + 4

(* Leave the handler for the kernel at address r.                         *)
Return(r) == hart' = "kernel" /\ pc' = r

(* shutdown(): write the QEMU test device and wait for interrupts forever. *)
Shutdown == hart' = "off" /\ UNCHANGED pc

(* trap_handler dispatches on mcause & 0x7FFF_FFFF, which is mcause       *)
(* itself for the exception codes a hart raises here; each arm of the     *)
(* match is an action.  The ecall's a7, a6 and a0 are the instruction's    *)
(* eid, fid and arg.                                                        *)
Trapped(ins) == hart = "trap" /\ ins = prog[mepc \div 4 + 1]

(* An S-mode ecall of SRST: handle_sbi_call_direct calls shutdown().      *)
TrapSrst ==
  /\ \E ins \in Instrs : Trapped(ins) /\ ins.eid = EID_SRST
  /\ mcause = CAUSE_ECALL_S
  /\ Shutdown
  /\ UNCHANGED <<prog, priv, mcause, mepc, console, answer>>

(* Any other S-mode ecall: handle_sbi_call_direct leaves the answer in a0, *)
(* a1 (the console put-char printing arg0 & 0xFF first) and returns past   *)
(* the ecall.                                                               *)
TrapSbiCall ==
  /\ \E ins \in Instrs :
       /\ Trapped(ins) /\ ins.eid # EID_SRST
       /\ answer' = SbiAnswer(ins.eid, ins.fid)
       /\ console' = IF ins.eid = EID_CONSOLE /\ ins.fid = 0
                       THEN Append(console, ins.arg % 256) ELSE console
  /\ mcause = CAUSE_ECALL_S
  /\ Return(Resume(mepc))
  /\ UNCHANGED <<prog, priv, mcause, mepc>>

(* An M-mode ecall (handle_mmode_ecall_direct) or an instruction access   *)
(* fault (handle_unknown_trap_direct, mcause 1): return past it.           *)
TrapStepOver ==
  /\ hart = "trap"
  /\ mcause \in {CAUSE_ECALL_M, CAUSE_FETCH_FAULT}
  /\ Return(Resume(mepc))
  /\ UNCHANGED <<prog, priv, mcause, mepc, console, answer>>

(* Any other trap: handle_unknown_trap_direct calls shutdown().           *)
TrapFatal ==
  /\ hart = "trap"
  /\ mcause \notin {CAUSE_ECALL_S, CAUSE_ECALL_M, CAUSE_FETCH_FAULT}
  /\ Shutdown
  /\ UNCHANGED <<prog, priv, mcause, mepc, console, answer>>

Trap == TrapSrst \/ TrapSbiCall \/ TrapStepOver \/ TrapFatal

Next == KernelStep \/ Trap

(* One hart runs the kernel and, with traps masked, the handler to its    *)
(* end: whichever is enabled is eventually taken.                          *)
Spec == Init /\ [][Next]_vars /\ WF_vars(Next)

-----------------------------------------------------------------------------
TypeOK ==
  /\ prog \in [1..ProgLen -> Instrs]
  /\ priv \in Privs
  /\ hart \in {"kernel", "trap", "off"}
  /\ pc \in {4 * k : k \in 0..ProgLen}
  /\ mcause \in {0, CAUSE_FETCH_FAULT, CAUSE_ILLEGAL, CAUSE_ECALL_S,
                 CAUSE_ECALL_M}
  /\ mepc \in {4 * k : k \in 0..ProgLen}
  /\ console \in Seq(0..255)
  /\ answer \in Int \X Int

(* The handler implements the service of spec 4.7: the trap entry is      *)
(* invisible to the kernel, and the handler's return completes the         *)
(* trapping instruction in one step.  Instructions completed are the      *)
(* kernel's pc while it runs, and mepc while the handler holds its trap.   *)
Service == INSTANCE SbiService
             WITH apc <- (IF hart = "trap" THEN mepc ELSE pc) \div 4,
                  halted <- (hart = "off"),
                  Answer <- SbiAnswer
ImplementsSbiService == Service!Spec

=============================================================================
