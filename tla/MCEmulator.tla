----------------------------- MODULE MCEmulator -----------------------------
(***************************************************************************)
(* Small instances of Emulator: four-bit words (a byte is one bit), sixteen *)
(* addresses, and a decoder that maps each of the sixteen words to an      *)
(* instruction: the loader's image is the program, and a run explores every *)
(* program of three words whose last word is one of a few, programs that   *)
(* rewrite themselves included.                                            *)
(***************************************************************************)
EXTENDS Emulator, Alu

MCReg == {0, 2, 10, 11, 12, 17}

\* A LOAD region of three instructions, then the heap and, where it ends,
\* the stack, as elf_init lays them out; the last address is in no region.
MCRegions ==
  <<[vma_base |-> 0,  sz_reserved |-> 12],
    [vma_base |-> 12, sz_reserved |-> 2],
    [vma_base |-> 14, sz_reserved |-> 1]>>

\* The table of a file whose entry point is odd and whose .bss ends one byte
\* below the top of the address space, with a gap behind the code: the end of the
\* heap wraps around to zero, so that no address is in it and no break inside
\* it, and the stack is the byte at zero, in front of the code.
TopRegions ==
  <<[vma_base |-> 1,  sz_reserved |-> 12],
    [vma_base |-> 14, sz_reserved |-> 1],
    [vma_base |-> 15, sz_reserved |-> 1],
    [vma_base |-> 0,  sz_reserved |-> 1]>>

\* The image of a program whose first and last words are among the ones
\* given; the heap and the stack are zeroed.
WordAt(code, addr) == FromBytes([k \in 0 .. 3 |-> code[addr + k]], 4)
Programs(firsts, lasts) ==
  {[c \in Cells |-> IF c[1] = 1 THEN code[c[2]] ELSE 0] :
     code \in {f \in [0 .. 11 -> Byte] :
                 WordAt(f, 0) \in firsts /\ WordAt(f, 8) \in lasts}}

Insn(ty, rd, rs1, rs2, imm) ==
  [insn_ty |-> ty, rd |-> rd, rs1 |-> rs1, rs2 |-> rs2, funct |-> 0,
   imm |-> Wrap(imm)]
FInsn(ty, funct, rd, rs1, rs2, imm) ==
  [Insn(ty, rd, rs1, rs2, imm) EXCEPT !.funct = funct]
NoInsn(how) == Insn(how, 0, 0, 0, 0)

\* The system call numbers, small enough for a four-bit a7; a7 starts as 0, so
\* three words are enough for a loop that moves the break.
MCSysNo == [READ |-> 1, WRITE |-> 2, FSTAT |-> 3, EXIT |-> 5, BRK |-> 0]

-----------------------------------------------------------------------------
\* Arithmetic, control transfer and every way to stop.
ControlWords ==
  <<Insn("ADDI",   10, 10, 0, 3),
    Insn("ADD",    11, 10, 11, 0),
    Insn("SUB",    0,  10, 11, 0),
    Insn("BLT",    0,  0, 10, -4),
    Insn("BGEU",   0,  11, 10, 6),
    Insn("JAL",    0,  0, 0, -4),
    Insn("JALR",   11, 11, 0, 1),
    Insn("LUI",    11, 0, 0, 3),
    Insn("AUIPC",  10, 0, 0, 1),
    Insn("DIV",    10, 10, 11, 0),
    Insn("ADDI",   11, 0, 0, -3),
    Insn("FENCE",  0,  0, 0, 0),
    NoInsn("DIAGN"), NoInsn("SILENT"), NoInsn("FATAL"), NoInsn("UNREACHABLE")>>

\* Every load and store, at addresses that cross the ends of regions, enough
\* arithmetic to move them, and brk of what was loaded.
MemoryWords ==
  <<Insn("ADDI", 11, 11, 0, 1),
    Insn("LB",   10, 11, 0, 0),
    Insn("LH",   10, 2, 0, 0),
    Insn("LW",   12, 0, 0, 8),
    Insn("LBU",  12, 11, 0, -1),
    Insn("LHU",  12, 0, 0, 3),
    Insn("SB",   0,  11, 11, 0),
    Insn("SH",   0,  11, 10, 3),
    Insn("SW",   0,  11, 12, 4),
    Insn("SH",   0,  2, 11, -2),
    Insn("XORI", 12, 11, 0, 5),
    Insn("JAL",  12, 0, 0, -4),
    Insn("ADDI", 11, 11, 0, 7),
    Insn("BNE",  0,  11, 12, -8),
    Insn("EBREAK", 0, 0, 0, 0),
    Insn("ECALL", 0, 0, 0, 0)>>

\* Every system call, with buffers inside, across the end of, and outside a
\* region, and breaks below, inside, at the end of and above the heap.
SyscallWords ==
  <<Insn("ADDI", 10, 10, 0, 1),
    Insn("ECALL", 0, 0, 0, 0),
    Insn("ADDI", 17, 0, 0, 1),
    Insn("ADDI", 17, 0, 0, 2),
    Insn("ADDI", 17, 0, 0, 3),
    Insn("ADDI", 17, 0, 0, 5),
    Insn("JAL",  0,  0, 0, -4),
    Insn("JAL",  0,  0, 0, -8),
    Insn("ADDI", 11, 0, 0, 13),
    Insn("ADDI", 11, 0, 0, 15),
    Insn("ADDI", 12, 0, 0, 2),
    Insn("ADDI", 10, 0, 0, 14),
    Insn("ADDI", 17, 0, 0, 7),
    Insn("ADDI", 10, 10, 0, -1),
    Insn("ADDI", 11, 0, 0, 9),
    Insn("ADDI", 10, 10, 0, 7)>>

\* Floating point: loads and stores inside, across and outside the region of
\* the code, moves and conversions, and instructions whose funct is a width
\* (FLW, FADD.S with rm = 2 or 3), is none, and is not looked at.  Of an FEQ
\* rvdec_insn makes the funct 642; the one with a width stands for the cases
\* that rvemu_dispatch has for it all the same.
FloatWords ==
  <<Insn("XORI",   11, 11, 0, 8),
    FInsn("FLx",   2, 10, 11, 0, 2),
    FInsn("FLx",   3, 11, 12, 0, 4),
    FInsn("FSx",   2, 0,  11, 11, 8),
    FInsn("FSx",   3, 0,  11, 10, 3),
    FInsn("FADDx", 2, 10, 11, 10, 0),
    FInsn("FADDx", 3, 10, 11, 10, 0),
    FInsn("FEQx",  642, 11, 10, 11, 0),
    FInsn("FEQx",  2, 12, 10, 11, 0),
    FInsn("FSUBx", 39, 10, 10, 11, 0),
    FInsn("FMV_X_W", 896, 12, 10, 0, 0),
    FInsn("FMV_W_X", 960, 11, 11, 0, 0),
    FInsn("FCVT_S_D", 263, 11, 10, 0, 0),
    FInsn("FCLASSx", 897, 10, 10, 0, 0),
    Insn("JAL",    0, 0, 0, -4),
    Insn("JAL",    0, 0, 0, -8)>>

MCFloatResults == {[hi |-> 5, lo |-> 9], [hi |-> 0, lo |-> 14]}

FloatDecode   == [w \in Word |-> FloatWords[w + 1]]
ControlDecode == [w \in Word |-> ControlWords[w + 1]]
MemoryDecode  == [w \in Word |-> MemoryWords[w + 1]]
SyscallDecode == [w \in Word |-> SyscallWords[w + 1]]

MemoryImages  == Programs(Word, {6, 7, 8, 11, 13})
FloatImages   == Programs(Word, {7, 9, 14, 15})
SyscallImages == Programs(Word, {1, 6, 7})
=============================================================================
