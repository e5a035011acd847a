----------------------------- MODULE SbiService -----------------------------
(***************************************************************************)
(* What the resident trap handler promises the kernel it serves (spec      *)
(* 4.7): the kernel's program runs instruction by instruction; each        *)
(* environment call is served in one step, the console call prints its     *)
(* byte, the system-reset call and a fatal trap stop the machine, and      *)
(* execution resumes at the instruction after the one that trapped.  The   *)
(* answer an ecall gets is the parameter Answer, so this module says how   *)
(* the calls are served, not which table answers them.                     *)
(***************************************************************************)
EXTENDS Naturals, Sequences

CONSTANTS
  ProgLen,     \* instructions in the kernel's program
  Eids, Fids,  \* extension and function ids the kernel passes in a7, a6
  Args,        \* values the kernel passes in a0
  Privs,       \* privilege the kernel runs in: "S" or "M"
  Answer(_, _) \* <<error, value>> served for an extension and function id

EID_CONSOLE == 1             \* legacy console put-char
EID_SRST == 1397904212       \* 0x53525354, "SRST"

Instrs ==
  [kind : {"op", "fetchfault", "illegal"}, eid : {0}, fid : {0}, arg : {0}]
    \cup [kind : {"ecall"}, eid : Eids, fid : Fids, arg : Args]

VARIABLES
  prog,     \* the kernel's program (fixed)
  priv,     \* the kernel's privilege (fixed)
  apc,      \* instructions completed
  console,  \* bytes written to the UART by console calls
  answer,   \* the answer of the last ecall served
  halted    \* the machine has stopped

avars == <<prog, priv, apc, console, answer, halted>>

Init ==
  /\ prog \in [1..ProgLen -> Instrs]
  /\ priv \in Privs
  /\ apc = 0
  /\ console = <<>>
  /\ answer = <<0, 0>>
  /\ halted = FALSE

(* A call served from supervisor mode: print, answer, go on.              *)
Serve(ins) ==
  /\ answer' = Answer(ins.eid, ins.fid)
  /\ console' = IF ins.eid = EID_CONSOLE /\ ins.fid = 0
                  THEN Append(console, ins.arg % 256) ELSE console
  /\ apc' = apc + 1
  /\ UNCHANGED halted

(* The next instruction completes.  An instruction-fetch fault is         *)
(* stepped over; an ecall from machine mode is acknowledged and stepped    *)
(* over without service.                                                   *)
Run ==
  /\ ~halted /\ apc < ProgLen
  /\ LET ins == prog[apc + 1]
     IN IF \/ ins.kind = "illegal"
           \/ ins.kind = "ecall" /\ priv = "S" /\ ins.eid = EID_SRST
          THEN halted' = TRUE /\ UNCHANGED <<apc, console, answer>>
        ELSE IF ins.kind = "ecall" /\ priv = "S"
          THEN Serve(ins)
        ELSE apc' = apc + 1 /\ UNCHANGED <<console, answer, halted>>
  /\ UNCHANGED <<prog, priv>>

Next == Run

Spec == Init /\ [][Next]_avars /\ WF_avars(Next)

=============================================================================
