------------------------------ MODULE Syscalls ------------------------------
(***************************************************************************)
(* The system calls (dispatch.c, syscall.c): a call takes its number from  *)
(* a7 (x17) and its arguments from a0, a1, a2 (x10, x11, x12).  What the   *)
(* host answers is a choice among the answers it can give.                 *)
(***************************************************************************)
EXTENDS Hart

Calls(i, name) == i.insn_ty = "ECALL" /\ X[17] = SysNo[name]

Returns(v) == WriteReg(10, v) /\ NextInsn /\ UNCHANGED <<fregs, suspended, host>>

\* A stub: it takes no byte and reports the end of the file.
SysRead(i) ==
  /\ Calls(i, "READ") /\ Mapped(X[11])
  /\ Returns(0)
  /\ UNCHANGED <<mem, sz_alloc>>

\* The host's write: it fails, or it takes at most the bytes asked for.
SysWrite(i) ==
  /\ Calls(i, "WRITE") /\ Mapped(X[11])
  /\ \E n \in {-1} \cup 0 .. X[12] : Returns(n)
  /\ UNCHANGED <<mem, sz_alloc>>

\* The host's fstat: it fails, or it fills its own struct in guest memory.
SysFstat(i) ==
  /\ Calls(i, "FSTAT") /\ Mapped(X[11])
  /\ \/ Returns(-1) /\ mem' = mem
     \/ /\ Returns(0)
        /\ \E b \in [0 .. StatSize - 1 -> Byte] :
             mem' = StoreBytes(mem, X[11], StatSize, b)
  /\ UNCHANGED sz_alloc

SysFstatOverrun(i) ==
  /\ Calls(i, "FSTAT") /\ Mapped(X[11]) /\ ~Fits(X[11], StatSize)
  /\ HostDies("undefined")

SysFault(i) ==
  /\ \E name \in {"READ", "WRITE", "FSTAT"} : Calls(i, name)
  /\ ~Mapped(X[11])
  /\ HostDies("trapped")

MinBrk     == Regions[Heap].vma_base
MaxBrkNext == Wrap(MinBrk + Regions[Heap].sz_reserved + 1)   \* mutant: off by one
MaxBrk     == Wrap(MinBrk + Regions[Heap].sz_reserved)
ReserveEnd == Wrap(MinBrk + Regions[Heap].sz_reserved)   \* mutant: sz_reserved for sz_alloc
CurrentBrk == Wrap(MinBrk + sz_alloc)

NoneRefused(brk) == FALSE                                \* mutant: no range check
OutsideHeap(brk) == brk < MinBrk \/ brk > MaxBrk

\* brk = 0 and a break outside the heap only ask where the break is.
SysBrk(i) ==
  /\ Calls(i, "BRK")
  /\ LET brk == X[10]
     IN  IF brk = 0 \/ OutsideHeap(brk)
         THEN Returns(CurrentBrk) /\ sz_alloc' = sz_alloc
         ELSE Returns(brk) /\ sz_alloc' = Wrap(sz_alloc + brk - CurrentBrk)
  /\ mem' = mem

SysExit(i) == Calls(i, "EXIT") /\ Suspends

SysUnknown(i) ==
  /\ i.insn_ty = "ECALL"
  /\ \A name \in DOMAIN SysNo : X[17] # SysNo[name]
  /\ Suspends
=============================================================================
