------------------------------ MODULE Emulator ------------------------------
(***************************************************************************)
(* One step of the emulator (rvemu_step, rvemu_dispatch): fetch, decode,   *)
(* and whichever instruction that gives.                                   *)
(***************************************************************************)
EXTENDS BaseInsns, Syscalls, FloatInsns

-----------------------------------------------------------------------------
\* rvemu_dispatch
Dispatch(i) ==
  \/ ExecReg(i)    \/ ExecDivTrap(i) \/ ExecImm(i)          \/ ExecUpper(i)
  \/ ExecLoad(i)   \/ ExecStore(i)   \/ ExecStoreOverrun(i) \/ AccessFault(i)
  \/ ExecBranch(i) \/ ExecJal(i)     \/ ExecJalr(i)
  \/ ExecEbreak(i) \/ ExecFence(i)
  \/ SysRead(i)    \/ SysWrite(i)    \/ SysFstat(i)         \/ SysFstatOverrun(i)
  \/ SysFault(i)   \/ SysBrk(i)      \/ SysExit(i)          \/ SysUnknown(i)
  \/ DispatchFloat(i)

\* The steps of which rvemu_step does not return.
Dies ==
  \/ FetchFault
  \/ \E i \in Fetched : RejectFatal(i) \/ RejectUnreachable(i)

\* rvemu_step
Step ==
  /\ CanStep
  /\ Dies \/ \E i \in Fetched : Reject(i) \/ Dispatch(i)

Next == Step

Spec == Init /\ [][Next]_vars

-----------------------------------------------------------------------------
(***************************************************************************)
(* Properties.                                                             *)
(***************************************************************************)
TypeOK ==
  /\ regs \in [Reg -> Word]
  /\ fregs \in [Reg -> Doubles]
  /\ pc \in Word
  /\ suspended \in BOOLEAN
  /\ mem \in [Cells -> Byte]
  /\ sz_alloc \in Word
  /\ host \in HostStates

\* However the guest jumps, an even pc stays even, and so does one that jalr made
\* even after an odd entry point, which no one refuses (elf.c:231): branches and
\* jal add an even offset, jalr clears bit 0 of its target (dispatch.c:247), and
\* no sum that wraps around loses the parity.
EvenKept == pc % 2 = 0 => pc' % 2 = 0

EvenStaysEven == [][EvenKept]_vars

\* The break never leaves the heap's reserve, although rvsysc_brk adds the
\* difference of two breaks to sz_alloc in u32 arithmetic (syscall.c:42-46)
\* and the end of the reserve may itself wrap around.
BreakInReserve == sz_alloc <= Regions[Heap].sz_reserved

\* What brk returns is the break from then on, whether it moved it (the
\* argument, syscall.c:47) or not (the break computed before, syscall.c:45).
BrkReports ==
  \A i \in Fetched :
    CanStep /\ SysBrk(i) => regs'[10] = Wrap(MinBrk + sz_alloc')

BrkReportsTheBreak == [][BrkReports]_vars

GuestByte(m, addr) == m[CellOf(addr)]

\* The width of an access, and the bytes of the register a store stores.
Width(i) ==
  IF i.insn_ty \in DOMAIN LoadSize THEN LoadSize[i.insn_ty]
  ELSE IF i.insn_ty \in DOMAIN StoreSize THEN StoreSize[i.insn_ty]
  ELSE IF i.funct = DOUBLE THEN 8 ELSE 4

StoredByte(i, k) ==
  IF i.insn_ty = "FSx" THEN FloatByte(fregs[i.rs2], k) ELSE ByteOf(X[i.rs2], k)

\* A store that stays in its region changes what the guest reads at the bytes
\* it names and nowhere else, through whatever region each is translated by.
StoreReadsBack(i) ==
  \A a \in Word :
    Mapped(a) =>
      LET k == Wrap(a - Address(i))
      IN  GuestByte(mem', a) =
            IF k < Width(i) THEN StoredByte(i, k) ELSE GuestByte(mem, a)

FlatStore ==
  \A i \in Fetched :
    /\ CanStep /\ (ExecStore(i) \/ ExecFloatStore(i))
    /\ Fits(Address(i), Width(i))
    => StoreReadsBack(i)

StoreIsFlat == [][FlatStore]_vars

\* What a load puts above the bytes it reads: the sign of LB and LH, ones for
\* a single in a double's register, zeroes otherwise.
Filler(i) ==
  LET top == GuestByte(mem, Wrap(Address(i) + Width(i) - 1))
  IN  IF \/ i.insn_ty = "FLx"
         \/ i.insn_ty \in {"LB", "LH"} /\ 2 * top >= ByteMod
      THEN ByteMod - 1 ELSE 0

LoadReads(i, byte(_), n) ==
  \A k \in 0 .. n - 1 :
    byte(k) = IF k < Width(i) THEN GuestByte(mem, Wrap(Address(i) + k))
              ELSE Filler(i)

\* A load that stays in its region leaves in each byte of its register the
\* guest byte at the address of that byte, through whatever region that is
\* translated by, and the filler above (dispatch.c:153-172, 334-348).
FlatLoad ==
  \A i \in Fetched :
    CanStep /\ Mapped(Address(i)) /\ Fits(Address(i), Width(i)) =>
      /\ ExecLoad(i) =>
           LET Loaded(k) == ByteOf(regs'[i.rd], k) IN LoadReads(i, Loaded, 4)
      /\ ExecFloatLoad(i) =>
           LET Loaded(k) == FloatByte(fregs'[i.rd], k) IN LoadReads(i, Loaded, 8)

LoadIsFlat == [][FlatLoad]_vars

-----------------------------------------------------------------------------
(***************************************************************************)
(* The hart a guest sees.                                                  *)
(***************************************************************************)
Chunks == {{a \in Word : Contains(i, a)} : i \in 1 .. NRegions}

Flat == [a \in UNION Chunks |-> GuestByte(mem, a)]

Status ==
  IF host # "running" THEN "dead" ELSE IF suspended THEN "halted" ELSE "running"

TheIsa == INSTANCE Isa WITH x <- X, flat <- Flat, status <- Status

\* What the guest can tell of a run is a run of the flat hart: its x0 is zero
\* whenever it reads it (emu.c:82), and which region, buffer and pointer a byte
\* came through (elf.c:7-21, emu.c:27-43) shows nowhere but at the end of a
\* region, where an access is cut off or the process ends.
IsaKept == TheIsa!Spec
=============================================================================
