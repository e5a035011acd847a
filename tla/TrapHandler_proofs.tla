-------------------------- MODULE TrapHandler_proofs --------------------------
(***************************************************************************)
(* Proofs about TrapHandler: it is well typed, and its safety part         *)
(* implements SbiService under the refinement mapping of TrapHandler       *)
(* (Service).                                                              *)
(***************************************************************************)
EXTENDS TrapHandler, TLAPS

(* Byte offsets of instruction boundaries of the kernel's program.        *)
Addrs == {4 * k : k \in 0..ProgLen}

(* While the handler holds a trap, the kernel's pc is still at the        *)
(* trapping instruction, which is an instruction of the program other      *)
(* than an ordinary one, and mcause is the cause that instruction raises.  *)
TrapInv ==
  hart = "trap" =>
    /\ pc = mepc
    /\ mepc \div 4 < ProgLen
    /\ prog[mepc \div 4 + 1].kind # "op"
    /\ mcause = CauseOf(prog[mepc \div 4 + 1])

Inv == TypeOK /\ TrapInv

-----------------------------------------------------------------------------
(* The next instruction boundary of a boundary inside the program.        *)
LEMMA AddrNext ==
  ASSUME NEW a \in Addrs, a \div 4 < ProgLen, ProgLen \in Nat
  PROVE  /\ a + 4 \in Addrs
         /\ (a + 4) \div 4 = a \div 4 + 1
         /\ a \div 4 + 1 \in 1..ProgLen
<1>1. PICK k \in 0..ProgLen : a = 4 * k
  BY DEF Addrs
<1>2. a \div 4 = k /\ (a + 4) \div 4 = k + 1
  BY <1>1
<1>3. k + 1 \in 0..ProgLen /\ a + 4 = 4 * (k + 1)
  BY <1>1, <1>2
<1>4. QED
  BY <1>2, <1>3 DEF Addrs

(* Every answer of the dispatch table is a pair of integers.              *)
LEMMA AnswerType ==
  ASSUME NEW e, NEW f
  PROVE  SbiAnswer(e, f) \in Int \X Int
<1>1. /\ HandleBase(f) \in Int \X Int /\ HandleConsole(f) \in Int \X Int
      /\ HandleTimer(f) \in Int \X Int /\ HandleVendor(f) \in Int \X Int
  BY DEF HandleBase, HandleConsole, HandleTimer, HandleVendor, SBI_ERR
<1>2. QED
  BY <1>1 DEF SbiAnswer, SBI_ERR, EID_BASE, EID_CONSOLE, EID_TIME, EID_BIND

(* The byte the console call prints.                                       *)
LEMMA ByteType ==
  ASSUME NEW x \in Nat
  PROVE  x % 256 \in 0..255
OBVIOUS

(* The fields of an instruction the kernel may execute.                  *)
LEMMA InstrFields ==
  ASSUME TrapConstantsAssumption, NEW ins \in Instrs
  PROVE  /\ ins.kind \in {"op", "fetchfault", "illegal", "ecall"}
         /\ ins.eid \in Nat /\ ins.fid \in Nat /\ ins.arg \in Nat
<1>1. CASE ins \in [kind : {"op", "fetchfault", "illegal"}, eid : {0},
                    fid : {0}, arg : {0}]
  BY <1>1
<1>2. CASE ins \in [kind : {"ecall"}, eid : Eids, fid : Fids, arg : Args]
  <2>1. ins.eid \in Eids /\ ins.fid \in Fids /\ ins.arg \in Args
        /\ ins.kind = "ecall"
    BY <1>2
  <2>2. QED
    BY <2>1
<1>3. QED
  BY <1>1, <1>2 DEF Instrs

(* What each exception code in mcause says of the instruction that raised *)
(* it: the inverse of CauseOf on the instructions that trap.              *)
LEMMA CauseFacts ==
  ASSUME NEW ins \in Instrs, ins.kind # "op", priv \in {"S", "M"}
  PROVE  /\ CauseOf(ins) \in {CAUSE_FETCH_FAULT, CAUSE_ILLEGAL, CAUSE_ECALL_S,
                              CAUSE_ECALL_M}
         /\ CauseOf(ins) = CAUSE_ECALL_S <=> ins.kind = "ecall" /\ priv = "S"
         /\ CauseOf(ins) = CAUSE_ECALL_M <=> ins.kind = "ecall" /\ priv = "M"
         /\ CauseOf(ins) = CAUSE_FETCH_FAULT <=> ins.kind = "fetchfault"
         /\ CauseOf(ins) = CAUSE_ILLEGAL <=> ins.kind = "illegal"
<1>1. ins.kind \in {"fetchfault", "illegal", "ecall"}
  BY DEF Instrs
<1> USE DEF CAUSE_FETCH_FAULT, CAUSE_ILLEGAL, CAUSE_ECALL_S, CAUSE_ECALL_M
<1>2. CASE ins.kind = "fetchfault"
  <2>1. CauseOf(ins) = CAUSE_FETCH_FAULT
    BY <1>2 DEF CauseOf
  <2>2. QED
    BY <1>2, <2>1
<1>3. CASE ins.kind = "illegal"
  <2>1. CauseOf(ins) = CAUSE_ILLEGAL
    BY <1>3 DEF CauseOf
  <2>2. QED
    BY <1>3, <2>1
<1>4. CASE ins.kind = "ecall" /\ priv = "S"
  <2>1. CauseOf(ins) = CAUSE_ECALL_S
    BY <1>4 DEF CauseOf
  <2>2. QED
    BY <1>4, <2>1
<1>5. CASE ins.kind = "ecall" /\ priv = "M"
  <2>1. CauseOf(ins) = CAUSE_ECALL_M
    BY <1>5 DEF CauseOf
  <2>2. QED
    BY <1>5, <2>1
<1>6. QED
  BY <1>1, <1>2, <1>3, <1>4, <1>5

-----------------------------------------------------------------------------
LEMMA InitInv == Init => Inv
<1> SUFFICES ASSUME Init PROVE Inv
  OBVIOUS
<1>1. pc \in Addrs /\ mepc \in Addrs
  BY TrapConstantsAssumption DEF Init, Addrs
<1>2. TypeOK
  BY <1>1 DEF Init, TypeOK, Addrs
<1>3. TrapInv
  BY DEF Init, TrapInv
<1>4. QED
  BY <1>2, <1>3 DEF Inv

LEMMA KernelStepInv ==
  ASSUME Inv, KernelStep
  PROVE  Inv'
<1> USE TrapConstantsAssumption
<1> DEFINE ins == prog[pc \div 4 + 1]
<1>1. pc \in Addrs /\ pc \div 4 < ProgLen /\ hart = "kernel"
  BY DEF Inv, TypeOK, Addrs, KernelStep
<1>2. ins \in Instrs /\ priv \in {"S", "M"}
  BY <1>1, AddrNext DEF Inv, TypeOK
<1>3. CASE ins.kind = "op"
  <2>1. pc' = pc + 4 /\ UNCHANGED <<prog, priv, hart, mcause, mepc, console, answer>>
    BY <1>3 DEF KernelStep
  <2>2. pc' \in Addrs
    BY <1>1, <2>1, AddrNext
  <2>3. QED
    BY <1>1, <2>1, <2>2 DEF Inv, TypeOK, TrapInv, Addrs
<1>4. CASE ins.kind # "op"
  <2>1. /\ hart' = "trap" /\ mepc' = pc /\ pc' = pc /\ mcause' = CauseOf(ins)
        /\ UNCHANGED <<prog, priv, console, answer>>
    BY <1>4 DEF KernelStep
  <2>2. CauseOf(ins)' = CauseOf(ins)
    BY <2>1 DEF CauseOf
  <2>3. TypeOK'
    BY <1>1, <1>2, <1>4, <2>1, CauseFacts DEF Inv, TypeOK, Addrs
  <2>4. TrapInv'
    BY <1>1, <1>4, <2>1, <2>2 DEF TrapInv
  <2>5. QED
    BY <2>3, <2>4 DEF Inv
<1>5. QED
  BY <1>3, <1>4

(* Every arm of trap_handler leaves the handler for the kernel past the   *)
(* trapping instruction, or stops the hart where it is.                   *)
LEMMA TrapStepInv ==
  ASSUME Inv, Trap
  PROVE  Inv'
<1> USE TrapConstantsAssumption
<1> DEFINE ins == prog[mepc \div 4 + 1]
<1>1. mepc \in Addrs /\ mepc \div 4 < ProgLen /\ hart = "trap"
  BY DEF Inv, TypeOK, TrapInv, Trap, TrapSrst, TrapSbiCall, TrapStepOver,
         TrapFatal, Trapped, Addrs
<1>2. ins \in Instrs
  BY <1>1, AddrNext DEF Inv, TypeOK
<1>3. /\ mepc + 4 \in Addrs
      /\ hart' \in {"kernel", "off"}
      /\ pc' \in {mepc + 4, pc}
      /\ UNCHANGED <<prog, priv, mcause, mepc>>
  BY <1>1, AddrNext DEF Trap, TrapSrst, TrapSbiCall, TrapStepOver, TrapFatal,
                        Shutdown, Return, Resume
<1>4. console' \in Seq(0..255) /\ answer' \in Int \X Int
  <2>1. CASE TrapSbiCall
    <3>1. PICK i \in Instrs :
            /\ Trapped(i)
            /\ answer' = SbiAnswer(i.eid, i.fid)
            /\ console' = IF i.eid = EID_CONSOLE /\ i.fid = 0
                            THEN Append(console, i.arg % 256) ELSE console
      BY <2>1 DEF TrapSbiCall
    <3>2. i.arg \in Nat
      BY InstrFields
    <3>3. i.arg % 256 \in 0..255 /\ console \in Seq(0..255)
      BY <3>2, ByteType DEF Inv, TypeOK
    <3>4. console' \in Seq(0..255)
      BY <3>1, <3>3
    <3>5. QED
      BY <3>1, <3>4, AnswerType
  <2>2. CASE TrapSrst \/ TrapStepOver \/ TrapFatal
    BY <2>2 DEF TrapSrst, TrapStepOver, TrapFatal, Inv, TypeOK
  <2>3. QED
    BY <2>1, <2>2 DEF Trap
<1>5. TypeOK'
  BY <1>1, <1>3, <1>4 DEF Inv, TypeOK, Addrs
<1>6. TrapInv'
  BY <1>3 DEF TrapInv
<1>7. QED
  BY <1>5, <1>6 DEF Inv

LEMMA StepInv == Inv /\ [Next]_vars => Inv'
<1> SUFFICES ASSUME Inv, [Next]_vars PROVE Inv'
  OBVIOUS
<1>1. CASE KernelStep
  BY <1>1, KernelStepInv
<1>2. CASE Trap
  BY <1>2, TrapStepInv
<1>3. CASE UNCHANGED vars
  BY <1>3 DEF vars, Inv, TypeOK, TrapInv, CauseOf
<1>4. QED
  BY <1>1, <1>2, <1>3 DEF Next

(* The handler's state stays well typed: pc and mepc are instruction      *)
(* boundaries of the program, the console holds bytes, and every answer    *)
(* handle_sbi_call_direct leaves is a pair of integers.                    *)
THEOREM TypeCorrect == Spec => []TypeOK
<1>1. Spec => []Inv
  BY InitInv, StepInv, PTL DEF Spec
<1>2. QED
  BY <1>1, PTL DEF Inv

-----------------------------------------------------------------------------
(* Instructions completed, as the refinement mapping of Service counts    *)
(* them.                                                                   *)
Done == (IF hart = "trap" THEN mepc ELSE pc) \div 4

LEMMA InitRefines == Init => Service!Init
BY DEF Init, Service!Init, Instrs, Service!Instrs

(* What a state inside the handler says of the trapping instruction.      *)
LEMMA InTrap ==
  ASSUME Inv, hart = "trap"
  PROVE  /\ pc = mepc /\ Done = mepc \div 4 /\ Done < ProgLen
         /\ mepc + 4 \in Addrs /\ (mepc + 4) \div 4 = Done + 1
         /\ prog[Done + 1] \in Instrs /\ prog[Done + 1].kind # "op"
         /\ mcause = CauseOf(prog[Done + 1])
         /\ priv \in {"S", "M"}
<1> USE TrapConstantsAssumption
<1>1. mepc \in Addrs /\ mepc \div 4 < ProgLen /\ pc = mepc
  BY DEF Inv, TypeOK, TrapInv, Addrs
<1>2. Done = mepc \div 4
  BY DEF Done
<1>3. mepc + 4 \in Addrs /\ (mepc + 4) \div 4 = mepc \div 4 + 1
      /\ mepc \div 4 + 1 \in 1..ProgLen
  BY <1>1, AddrNext
<1>4. QED
  BY <1>1, <1>2, <1>3 DEF Inv, TypeOK, TrapInv

(* The kernel runs an ordinary instruction: the service completes it.     *)
LEMMA KernelStepRefines ==
  ASSUME Inv, KernelStep
  PROVE  [Service!Next]_Service!avars
<1> USE TrapConstantsAssumption
<1> DEFINE ins == prog[pc \div 4 + 1]
<1>1. /\ pc \in Addrs /\ pc \div 4 < ProgLen /\ hart = "kernel"
      /\ Done = pc \div 4
  BY DEF Inv, TypeOK, Addrs, KernelStep, Done
<1>2. /\ pc + 4 \in Addrs /\ (pc + 4) \div 4 = pc \div 4 + 1
  BY <1>1, AddrNext
<1>3. CASE ins.kind = "op"
  <2>1. /\ pc' = pc + 4
        /\ UNCHANGED <<prog, priv, hart, mcause, mepc, console, answer>>
    BY <1>3 DEF KernelStep
  <2>2. Done' = Done + 1
    BY <1>1, <1>2, <2>1 DEF Done
  <2>3. Service!Run
    BY <1>1, <1>3, <2>1, <2>2 DEF Service!Run, Done
  <2>4. QED
    BY <2>3 DEF Service!Next
<1>4. CASE ins.kind # "op"
  <2>1. /\ hart' = "trap" /\ mepc' = pc /\ pc' = pc
        /\ UNCHANGED <<prog, priv, console, answer>>
    BY <1>4 DEF KernelStep
  <2>2. Done' = Done
    BY <1>1, <2>1 DEF Done
  <2>3. QED
    BY <1>1, <2>1, <2>2 DEF Service!avars, Done
<1>5. QED
  BY <1>3, <1>4

(* Each arm of trap_handler completes the trapping instruction as the     *)
(* service does.                                                           *)
LEMMA TrapRefines ==
  ASSUME Inv, Trap
  PROVE  Service!Run
<1> USE TrapConstantsAssumption
<1> DEFINE ins == prog[Done + 1]
<1>1. hart = "trap"
  BY DEF Trap, TrapSrst, TrapSbiCall, TrapStepOver, TrapFatal, Trapped
<1>2. /\ pc = mepc /\ Done = mepc \div 4 /\ Done < ProgLen
      /\ mepc + 4 \in Addrs /\ (mepc + 4) \div 4 = Done + 1
      /\ ins \in Instrs /\ ins.kind # "op"
      /\ mcause = CauseOf(ins) /\ priv \in {"S", "M"}
  BY <1>1, InTrap
<1>3. ins.kind \in {"fetchfault", "illegal", "ecall"}
  BY <1>2, InstrFields
<1>4. ~(hart = "off") /\ Done < ProgLen
  BY <1>1, <1>2
<1>5. CASE TrapSrst
  <2>1. /\ mcause = CAUSE_ECALL_S /\ ins.eid = EID_SRST
        /\ hart' = "off" /\ pc' = pc
        /\ UNCHANGED <<prog, priv, mcause, mepc, console, answer>>
    BY <1>2, <1>5 DEF TrapSrst, Trapped, Shutdown, Done
  <2>2. ins.kind = "ecall" /\ priv = "S"
    BY <1>2, <2>1, CauseFacts
  <2>3. Done' = Done
    BY <1>2, <2>1 DEF Done
  <2>4. QED
    BY <1>4, <2>1, <2>2, <2>3
    DEF Service!Run, Done, EID_SRST, Service!EID_SRST
<1>6. CASE TrapSbiCall
  <2>1. PICK i \in Instrs :
          /\ Trapped(i) /\ i.eid # EID_SRST
          /\ answer' = SbiAnswer(i.eid, i.fid)
          /\ console' = IF i.eid = EID_CONSOLE /\ i.fid = 0
                          THEN Append(console, i.arg % 256) ELSE console
    BY <1>6 DEF TrapSbiCall
  <2>2. i = ins
    BY <1>2, <2>1 DEF Trapped
  <2>3. /\ mcause = CAUSE_ECALL_S /\ hart' = "kernel" /\ pc' = mepc + 4
        /\ UNCHANGED <<prog, priv, mcause, mepc>>
    BY <1>6 DEF TrapSbiCall, Return, Resume
  <2>4. ins.kind = "ecall" /\ priv = "S"
    BY <1>2, <2>3, CauseFacts
  <2>5. Done' = Done + 1
    BY <1>2, <2>3 DEF Done
  <2>6. Service!Serve(ins)
    BY <1>1, <1>4, <2>1, <2>2, <2>3, <2>5
    DEF Service!Serve, EID_CONSOLE, Service!EID_CONSOLE, Done
  <2>7. QED
    BY <1>4, <2>1, <2>2, <2>3, <2>4, <2>6
    DEF Service!Run, Done, EID_SRST, Service!EID_SRST
<1>7. CASE TrapStepOver
  <2>1. /\ mcause \in {CAUSE_ECALL_M, CAUSE_FETCH_FAULT}
        /\ hart' = "kernel" /\ pc' = mepc + 4
        /\ UNCHANGED <<prog, priv, mcause, mepc, console, answer>>
    BY <1>7 DEF TrapStepOver, Return, Resume
  <2>2. ins.kind = "fetchfault" \/ (ins.kind = "ecall" /\ priv = "M")
    BY <1>2, <2>1, CauseFacts
  <2>3. Done' = Done + 1
    BY <1>2, <2>1 DEF Done
  <2>4. QED
    BY <1>4, <2>1, <2>2, <2>3 DEF Service!Run, Done
<1>8. CASE TrapFatal
  <2>1. /\ mcause \notin {CAUSE_ECALL_S, CAUSE_ECALL_M, CAUSE_FETCH_FAULT}
        /\ hart' = "off" /\ pc' = pc
        /\ UNCHANGED <<prog, priv, mcause, mepc, console, answer>>
    BY <1>8 DEF TrapFatal, Shutdown
  <2>2. ins.kind = "illegal"
    BY <1>2, <1>3, <2>1, CauseFacts
  <2>3. Done' = Done
    BY <1>2, <2>1 DEF Done
  <2>4. QED
    BY <1>4, <2>1, <2>2, <2>3 DEF Service!Run, Done
<1>9. QED
  BY <1>5, <1>6, <1>7, <1>8 DEF Trap

LEMMA StepRefines == Inv /\ [Next]_vars => [Service!Next]_Service!avars
<1> SUFFICES ASSUME Inv, [Next]_vars PROVE [Service!Next]_Service!avars
  OBVIOUS
<1>1. CASE KernelStep
  BY <1>1, KernelStepRefines
<1>2. CASE Trap
  BY <1>2, TrapRefines DEF Service!Next
<1>3. CASE UNCHANGED vars
  BY <1>3 DEF vars, Service!avars
<1>4. QED
  BY <1>1, <1>2, <1>3 DEF Next

(* The safety part of ImplementsSbiService: from its first state on, every *)
(* step of the kernel and of trap_handler is a step of the SBI service of  *)
(* spec 4.7 (an instruction completed, a call served, the machine stopped) *)
(* or leaves the service's state alone, for every program, privilege and  *)
(* set of extension and function ids.                                      *)
THEOREM Refinement == Spec => Service!Init /\ [][Service!Next]_Service!avars
<1>1. Spec => []Inv
  BY InitInv, StepInv, PTL DEF Spec
<1>2. QED
  BY <1>1, InitRefines, StepRefines, PTL DEF Spec

=============================================================================
