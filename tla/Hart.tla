-------------------------------- MODULE Hart --------------------------------
(***************************************************************************)
(* The hart of the emulator (emu.h, emu.c): its state, how an instruction  *)
(* is fetched, and the ways a step ends without executing one.  What the   *)
(* decoder makes of a word is a parameter (Decode), as are the results of  *)
(* arithmetic (Compute, FloatResults).                                     *)
(***************************************************************************)
EXTENDS Memory, InsnSet

CONSTANTS
  Decode,       \* rvdec_insn: the instruction a word stands for
  Compute(_, _, _), \* the value of a register-register operation, as a word
  FloatResults, \* the values a floating-point operation may give
  SysNo,        \* the system call numbers
  UpperUnit,    \* what an upper immediate counts: 2^12
  StatSize,     \* sizeof (struct stat) on the host
  Entry,        \* ctx->entry_point
  StackTop,     \* ctx->sp
  Images        \* the memory contents the loader may leave

RISCV_INSNLEN == 4

\* The u64 of a floating-point register.
Doubles == [hi : Word, lo : Word]

ASSUME MachineAssumption ==
  /\ {0, 2, 10, 11, 12, 17} \subseteq Reg
  /\ Reg \subseteq Nat
  /\ SysNo \in [{"READ", "WRITE", "EXIT", "FSTAT", "BRK"} -> Word]
  /\ UpperUnit \in Nat
  /\ StatSize \in Nat
  /\ Entry \in Word
  /\ StackTop \in Word
  /\ Images \subseteq [Cells -> Byte]
  /\ FloatResults \subseteq Doubles

ASSUME DecodeAssumption == IsDecoder(Decode)

ASSUME AluAssumption == ComputesWords(Compute)

-----------------------------------------------------------------------------
VARIABLES
  regs,        \* state->regs
  fregs,       \* state->fregs
  pc,          \* state->pc
  suspended,   \* state->suspended
  mem,         \* the bytes of the regions' host buffers
  sz_alloc,    \* the heap region's sz_alloc
  host         \* how the emulator's own process is doing

vars == <<regs, fregs, pc, suspended, mem, sz_alloc, host>>

HostStates == {"running", "trapped", "sigfpe", "undefined"}

Init ==
  /\ regs = [r \in Reg |-> IF r = 2 THEN StackTop ELSE 0]
  /\ fregs = [r \in Reg |-> [hi |-> 0, lo |-> 0]]
  /\ pc = Entry
  /\ suspended = FALSE
  /\ mem \in Images
  /\ sz_alloc = 0
  /\ host = "running"

\* Mutant of CanStep: rvemu_step does not look at suspended.
IgnoresSuspended == host = "running"

CanStep == host = "running" /\ ~suspended

\* Mutant of X: x0 is not cleared.
NeverCleared == regs

\* The register file an instruction reads: x0 was cleared before the fetch.
X == [regs EXCEPT ![0] = 0]

\* Mutant of WriteReg: no conversion to reg_t.
WriteUnconverted(rd, v) == regs' = [X EXCEPT ![rd] = v]

\* A write to x0 stays in the register file until the next step clears it.
WriteReg(rd, v) == regs' = [X EXCEPT ![rd] = Wrap(v)]

\* Mutant of NextInsn: a pc wider than u32.
NextUnwrapped == pc' = pc + RISCV_INSNLEN

NextInsn == pc' = Wrap(pc + RISCV_INSNLEN)

\* The instructions the word at pc may be (more than one only when the word
\* runs past the end of its region).
Fetched ==
  IF Mapped(pc) THEN {Decode[w] : w \in LoadValues(mem, pc, 4)} ELSE {}

\* The end of the process: rvtrbk_fatal traps, a division raises SIGFPE, and
\* after undefined behaviour nothing is known of the run.
HostDies(how) ==
  host' = how /\ UNCHANGED <<regs, fregs, pc, suspended, mem, sz_alloc>>

FetchFault == ~Mapped(pc) /\ HostDies("trapped")

-----------------------------------------------------------------------------
(***************************************************************************)
(* Words that decode to no instruction: rvemu_step returns false.          *)
(***************************************************************************)
Reject(i) ==
  /\ i.insn_ty \in {"DIAGN", "SILENT"}
  /\ suspended' = (i.insn_ty = "DIAGN")
  /\ regs' = X
  /\ UNCHANGED <<fregs, pc, mem, sz_alloc, host>>

RejectFatal(i) == i.insn_ty = "FATAL" /\ HostDies("trapped")

RejectUnreachable(i) == i.insn_ty = "UNREACHABLE" /\ HostDies("undefined")

-----------------------------------------------------------------------------
\* The operand of a load or a store.
Address(i) == Wrap(X[i.rs1] + i.imm)

\* Mutant of Suspends: the step returns before the pc moves.
SuspendsInPlace ==
  /\ suspended' = TRUE
  /\ regs' = X
  /\ UNCHANGED <<fregs, pc, mem, sz_alloc, host>>

\* The hart executes nothing more, but the pc is already moved.
Suspends ==
  /\ suspended' = TRUE
  /\ regs' = X
  /\ NextInsn
  /\ UNCHANGED <<fregs, mem, sz_alloc, host>>
=============================================================================
