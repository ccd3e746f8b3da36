----------------------------- MODULE X86Runtime -----------------------------
(***************************************************************************)
(* The processor of the interpreter: class X86Runtime running one Minix    *)
(* binary.  A step is one pass of the loop of run(): fetch the bytes of an *)
(* instruction, decode them, execute it.  The loop inside a repeated       *)
(* string instruction takes a step for each element it handles.            *)
(*                                                                         *)
(* The operating system is an environment here: SystemCall lets it reply   *)
(* and store as it likes, ExecCall lets it load any image.                 *)
(***************************************************************************)
EXTENDS X86Alu, X86Memory

CONSTANTS
  Loads,       \* what setBinary and processArgs can leave: [text, data, sp]
  OsStores,    \* what a system call may store in data memory
  OsReplies,   \* the words it may reply in m_type
  Leftovers,   \* what the uninitialised local val16 may hold
  Debug        \* run() was asked for a trace (option -m)

ASSUME LoadsAssumption ==
  \A l \in Loads : IsMemory(l.text) /\ IsMemory(l.data) /\ l.sp \in Word
ASSUME OsAssumption ==
  /\ \A m \in OsStores : IsMemory(m)
  /\ OsReplies \subseteq Word
ASSUME LeftoversAssumption == Leftovers \subseteq Word /\ Leftovers # {}
ASSUME DebugAssumption == Debug \in BOOLEAN

VARIABLES
  reg,       \* the eight general registers
  flags,     \* the bits of sreg the code uses
  text,      \* memory: the text segment
  data,      \* d_memory: the data segment
  pc,        \* pc - text
  addr,      \* the member addr, kept beside pc
  option,    \* opcode.option: the repeat prefix in force
  stringop,  \* the string instruction whose while loop is running, or 0
  val16,     \* the local val16, which survives from one pass to the next
  status     \* running, or how the loop ended

vars == <<reg, flags, text, data, pc, addr, option, stringop, val16, status>>

\* Register numbers of the instruction encoding.
AX == 0
CX == 1
DX == 2
BX == 3
SP == 4
BP == 5
SI == 6
DI == 7

NoOption == [active |-> FALSE, z |-> 0]
StringOps == {\ha4, \ha5, \ha6, \haa, \hae}

\* returned: run() gave its result back; exit: exit(1); crash: the host raised
\* SIGFPE; overrun: an access beyond the end of memory or d_memory.
Statuses == {"running", "returned", "exit", "crash", "overrun"}
-----------------------------------------------------------------------------
\* Data memory.
ReadData(w, a) == IF w = 1 THEN Pair(At(data, a), At(data, a + 1)) ELSE At(data, a)
WriteData(w, a, v) == IF w = 1 THEN StoreWord(data, a, v) ELSE Store(data, a, LowByte(v))

\* A word at the last address reaches past d_memory.
Beyond(w, a) == w = 1 /\ a = 65535

\* fetch(): d_memory follows memory in the object.
Fetched(k) == IF pc + k < 65536 THEN At(text, pc + k) ELSE At(data, pc + k - 65536)
FetchedWord(k) == Pair(Fetched(k), Fetched(k + 1))
-----------------------------------------------------------------------------
\* Registers: a byte register is a half of one of the first four words.
ReadRegister(w, i) ==
  IF w = 1 THEN reg[i] ELSE IF i < 4 THEN LowByte(reg[i]) ELSE HighByte(reg[i - 4])

WithRegister(r, w, i, v) ==
  IF w = 1 THEN [r EXCEPT ![i] = v % 65536]
  ELSE IF i < 4 THEN [r EXCEPT ![i] = Pair(LowByte(v), HighByte(r[i]))]
  ELSE [r EXCEPT ![i - 4] = Pair(LowByte(r[i - 4]), LowByte(v))]

\* Mutant of WithWord: the sum is kept in an int.
WithInt(r, i, v) == [r EXCEPT ![i] = v]

WithWord(r, i, v) == [r EXCEPT ![i] = v % 65536]
-----------------------------------------------------------------------------
\* Mutant of StackTop: the second byte is read one past the first, not at SP.
StackTopUnwrapped == Pair(At(data, reg[SP]), At(data, reg[SP] + 1))

\* The stack: SP is a uint16 and wraps between the two bytes of a word.
StackTop == Pair(At(data, reg[SP]), At(data, (reg[SP] + 1) % 65536))
\* Mutant of Pushed: SP is decremented after the two stores.
PushedAbove(v) ==
  Store(Store(data, (reg[SP] + 1) % 65536, HighByte(v)), reg[SP], LowByte(v))

Pushed(v) ==
  Store(Store(data, (reg[SP] - 1) % 65536, HighByte(v)), (reg[SP] - 2) % 65536, LowByte(v))
-----------------------------------------------------------------------------
\* Decoding: the opcode, the ModR/M byte, the displacement and what follows it.
Op == Fetched(0)
W == Op % 2
D == (Op \div 2) % 2
Mod == Fetched(1) \div 64
Reg == (Fetched(1) \div 8) % 8
Rom == Fetched(1) % 8

Direct == Mod = 0 /\ Rom = 6
DispLen == IF Direct \/ Mod = 2 THEN 2 ELSE IF Mod = 1 THEN 1 ELSE 0
Disp ==
  CASE DispLen = 2 -> FetchedWord(2)
    [] DispLen = 1 -> SignExtend(Fetched(2))
    [] OTHER -> 0

\* Where the immediate of an instruction with a ModR/M byte starts.
ImmAt == 2 + DispLen
Immediate(w, k) == IF w = 1 THEN FetchedWord(k) ELSE Fetched(k)

\* The s bit of 83 widens a byte with its sign.
ImmediateSW == IF Op = \h83 THEN SignExtend(Fetched(ImmAt)) ELSE Immediate(W, ImmAt)

\* The address a ModR/M byte names, under the registers r; 0 and 1 are refused.
Base(r) ==
  CASE Rom = 2 -> r[BP] + r[SI]
    [] Rom = 3 -> r[BP] + r[DI]
    [] Rom = 4 -> r[SI]
    [] Rom = 5 -> r[DI]
    [] Rom = 6 -> r[BP]
    [] OTHER -> r[BX]
AddressUnder(r) == IF Direct THEN Disp ELSE (Base(r) + Disp) % 65536
Address == AddressUnder(reg)
Refused == Mod # 3 /\ ~Direct /\ Rom \in {0, 1}

ReadEA(w) == IF Mod = 3 THEN ReadRegister(w, Rom) ELSE ReadData(w, Address)

WriteEA(w, v) ==
  /\ reg' = IF Mod = 3 THEN WithRegister(reg, w, Rom, v) ELSE reg
  /\ data' = IF Mod = 3 THEN data ELSE WriteData(w, Address, v)
-----------------------------------------------------------------------------
\* The opcodes that carry a ModR/M byte.
ModRM == (UNION {{8 * k, 8 * k + 1, 8 * k + 2, 8 * k + 3} : k \in 0 .. 7})
         \cup ((\h80 .. \h8b) \ {\h82}) \cup {\h8d, \h8f, \hc6, \hc7, \hd0, \hd1, \hd2, \hd3}
         \cup {\hf6, \hf7, \hfe, \hff}

Running == status = "running"

\* The next pass of the loop may start.
Ready == Running /\ stringop = 0 /\ pc < 65536

\* An instruction with a ModR/M byte whose operand can be accessed with width w.
Operand(w) ==
  Ready /\ (Mod # 3 => ~Refused /\ ~Beyond(w, Address))

\* Mutant of Advance: fetch2 counts one byte in addr.
AdvanceMiscounted(n) == pc' = pc + n /\ addr' = (addr + 1) % 65536

Advance(n) == pc' = pc + n /\ addr' = (addr + n) % 65536
JumpTo(a) == pc' = a % 65536 /\ addr' = a % 65536

\* Mutant of Flush: the pass ends without it.
FlushForgotten == option' = option

\* serialize() or option.flush() at the end of a pass.
Flush == option' = NoOption

\* setZSOC: D is not among them.
SetZSOC(res) ==
  flags' = [z |-> res.z, s |-> res.s, o |-> res.o, c |-> res.c, d |-> flags.d]

KeepVal16 == val16' = val16

\* A pass that ends with the loop still running, and touches only what it names.
Pass == Flush /\ UNCHANGED <<text, stringop, status>>
PassKeepingFlags == Pass /\ UNCHANGED <<flags, val16>>
-----------------------------------------------------------------------------
\* The loader's work is done: setBinary has placed the segments and zeroed pc,
\* processArgs has built the arguments and left SP under them.
Init ==
  \E l \in Loads :
    /\ text = l.text
    /\ data = l.data
    /\ reg = [i \in 0 .. 7 |-> IF i = SP THEN l.sp ELSE 0]
    /\ flags = [z |-> FALSE, s |-> FALSE, o |-> FALSE, c |-> FALSE, d |-> FALSE]
    /\ pc = 0 /\ addr = 0
    /\ option = NoOption
    /\ stringop = 0
    /\ val16 \in Leftovers
    /\ status = "running"
-----------------------------------------------------------------------------
\* add, or, adc, sbb, and, sub, xor, cmp: bits 3-5 of the opcode choose.
Kind == Op \div 8

\* 00-03, 08-0b, .., 38-3b: register and r/m; the d bit says which is changed.
\* or and xor compute the byte form in val16 as well.
AluReg ==
  /\ Operand(W)
  /\ Op < 64 /\ Op % 8 <= 3
  /\ LET x == IF D = 1 THEN ReadRegister(W, Reg) ELSE ReadEA(W)
         y == IF D = 1 THEN ReadEA(W) ELSE ReadRegister(W, Reg)
         res == TwoOperand(Kind, x, y, flags, Width(W))
     IN  /\ IF Kind = 7 THEN UNCHANGED <<reg, data>>
            ELSE IF D = 1 THEN reg' = WithRegister(reg, W, Reg, res.val) /\ UNCHANGED data
            ELSE WriteEA(W, res.val)
         /\ SetZSOC(res)
         /\ val16' = IF W = 1 THEN res.val
                     ELSE IF Kind \in {1, 6} THEN SignExtend(res.val) ELSE val16
  /\ Advance(2 + DispLen)
  /\ Pass

\* 04/05, .., 3c/3d: accumulator and immediate; xor has no such case.
AluAcc ==
  /\ Ready
  /\ Op < 64 /\ Op % 8 \in {4, 5} /\ Kind # 6
  /\ LET res == TwoOperand(Kind, ReadRegister(W, AX), Immediate(W, 1), flags, Width(W))
     IN  /\ reg' = IF Kind = 7 THEN reg ELSE WithRegister(reg, W, AX, res.val)
         /\ SetZSOC(res)
         /\ val16' = IF W = 1 THEN res.val ELSE val16
  /\ Advance(2 + W)
  /\ Pass /\ UNCHANGED data

\* 80, 81, 83: r/m and immediate, chosen by ext; and of 80 takes r/m twice.
AluImm ==
  /\ Operand(W)
  /\ Op \in {\h80, \h81, \h83}
  /\ Reg # 6 /\ ~(Reg = 1 /\ Op = \h83)
  /\ LET x == ReadEA(W)
         y == IF Reg = 4 /\ Op = \h80 THEN x ELSE ImmediateSW
         res == TwoOperand(Reg, x, y, flags, Width(W))
     IN  /\ IF Reg = 7 THEN UNCHANGED <<reg, data>> ELSE WriteEA(W, res.val)
         /\ SetZSOC(res)
         /\ val16' = IF W = 1 THEN res.val ELSE val16
  /\ Advance(3 + DispLen + (IF Op = \h81 THEN 1 ELSE 0))
  /\ Pass

\* 40-4f: inc and dec of a word register.
IncDecReg ==
  /\ Ready
  /\ Op \in \h40 .. \h4f
  /\ LET x == reg[Op % 8]
         res == IF Op < \h48 THEN Inc(x, flags, 65536) ELSE Dec(x, flags, 65536)
     IN  /\ reg' = WithWord(reg, Op % 8, res.val)
         /\ SetZSOC(res)
         /\ val16' = res.val
  /\ Advance(1)
  /\ Pass /\ UNCHANGED data

\* fe/ff, ext 0 and 1: inc and dec of r/m.
IncDecEA ==
  /\ Operand(W)
  /\ Op \in {\hfe, \hff} /\ Reg \in {0, 1}
  /\ LET x == ReadEA(W)
         res == IF Reg = 0 THEN Inc(x, flags, Width(W)) ELSE Dec(x, flags, Width(W))
     IN  /\ WriteEA(W, res.val)
         /\ SetZSOC(res)
         /\ val16' = IF W = 1 THEN res.val ELSE val16
  /\ Advance(2 + DispLen)
  /\ Pass
-----------------------------------------------------------------------------
\* What a test computes: flags and a scratch value, nothing stored.
Tested(res, wide) ==
  /\ SetZSOC(res)
  /\ val16' = IF wide THEN res.val ELSE val16
  /\ UNCHANGED <<reg, data>>

\* 84/85
TestReg ==
  /\ Operand(W)
  /\ Op \in {\h84, \h85}
  /\ Tested(LogicAnd(ReadEA(W), ReadRegister(W, Reg), Width(W)), W = 1)
  /\ Advance(2 + DispLen)
  /\ Pass

\* a8/a9: the branches are the other way round, so a9 tests AL and a8 tests AX.
TestAcc ==
  /\ Ready
  /\ Op \in {\ha8, \ha9}
  /\ LET m == Width(1 - W)
     IN  Tested(LogicAnd(reg[AX] % m, Immediate(W, 1) % m, m), W = 0)
  /\ Advance(2 + W)
  /\ Pass

\* f6/f7, ext 0
TestImm ==
  /\ Operand(W)
  /\ Op \in {\hf6, \hf7} /\ Reg = 0
  /\ Tested(LogicAnd(ReadEA(W), Immediate(W, ImmAt), Width(W)), W = 1)
  /\ Advance(3 + DispLen + W)
  /\ Pass

\* f6/f7, ext 2
Not ==
  /\ Operand(W)
  /\ Op \in {\hf6, \hf7} /\ Reg = 2
  /\ WriteEA(W, Complement(ReadEA(W), Width(W)))
  /\ Advance(2 + DispLen)
  /\ PassKeepingFlags

\* f6/f7, ext 3
Negate ==
  /\ Operand(W)
  /\ Op \in {\hf6, \hf7} /\ Reg = 3
  /\ LET res == Neg(ReadEA(W), Width(W))
     IN  /\ WriteEA(W, res.val)
         /\ SetZSOC(res)
         /\ val16' = IF W = 1 THEN res.val ELSE val16
  /\ Advance(2 + DispLen)
  /\ Pass

\* f6/f7, ext 4: the byte form stores only the low byte of the product.
Multiply ==
  /\ Operand(W)
  /\ Op \in {\hf6, \hf7} /\ Reg = 4
  /\ LET x == ReadRegister(W, AX)
         y == ReadEA(W)
         high == IF W = 1 THEN HighProduct(x, y) ELSE HighByte(x * y)
     IN  /\ reg' = IF W = 1 THEN WithWord(WithWord(reg, DX, high), AX, LowProduct(x, y))
                   ELSE WithRegister(reg, 0, AX, x * y)
         /\ flags' = [flags EXCEPT !.o = high # 0, !.c = high # 0]
  /\ Advance(2 + DispLen)
  /\ Pass /\ UNCHANGED <<data, val16>>

Dividing(ext) == Operand(W) /\ Op \in {\hf6, \hf7} /\ Reg = ext

\* What the host's division does not survive.
HostFault ==
  \/ ReadEA(W) = 0
  \/ Reg = 7 /\ W = 1 /\ HostOverflow(reg[DX], reg[AX], ReadEA(W))

\* f6/f7, ext 6: a quotient that does not fit is cut to the register.
Divide ==
  /\ Dividing(6) /\ ~HostFault
  /\ LET n == ReadEA(W)
     IN  reg' = IF W = 1
                THEN WithWord(WithWord(reg, AX, Quotient(reg[DX], reg[AX], n)),
                              DX, Remainder(reg[DX], reg[AX], n))
                ELSE WithWord(reg, AX, Pair((reg[AX] \div n) % 256, reg[AX] % n))
  /\ Advance(2 + DispLen)
  /\ PassKeepingFlags /\ UNCHANGED data

\* f6/f7, ext 7: the byte form divides all of AX by a char.
SignedDivide ==
  /\ Dividing(7) /\ ~HostFault
  /\ LET n == ReadEA(W)
         wide == IF TopBit(reg[AX], 65536) THEN 65535 ELSE 0
         den == IF W = 1 THEN n ELSE SignExtend(n)
         hi == IF W = 1 THEN reg[DX] ELSE wide
         q == SignedQuotient(hi, reg[AX], den)
         r == SignedRemainder(hi, reg[AX], den)
     IN  reg' = IF W = 1 THEN WithWord(WithWord(reg, AX, q), DX, r)
                ELSE WithWord(reg, AX, Pair(LowByte(q), LowByte(r)))
  /\ Advance(2 + DispLen)
  /\ PassKeepingFlags /\ UNCHANGED data

\* SIGFPE ends the whole interpreter.
DivideCrash ==
  /\ Dividing(6) \/ Dividing(7)
  /\ HostFault
  /\ status' = "crash"
  /\ UNCHANGED <<reg, flags, text, data, pc, addr, option, stringop, val16>>
-----------------------------------------------------------------------------
\* How far a shift goes, and whether D2/D3 change anything at all: CL = 0 leaves
\* all as it is, but rcl r/m8, CL asks for CF instead of CL.
ByCL == (Op \div 2) % 2 = 1
CL == LowByte(reg[CX])
Count == IF ByCL THEN CL % 32 ELSE 1
Shifts == ~ByCL \/ (IF Reg = 2 /\ W = 0 THEN flags.c ELSE CL # 0)

\* CL as it is once v has been written to the operand, which may be CL or CX.
CountAfter(v) == IF ByCL /\ Mod = 3 /\ Rom = 1 THEN LowByte(v) % 32 ELSE Count

Shifted(x, k) ==
  CASE Reg = 2 -> IF ByCL /\ W = 0 THEN RclByteByCL(x, Count, flags)
                  ELSE Rcl(x, Count, ByCL, flags, Width(W))
    [] Reg = 3 -> Rcr(x, Count, ByCL, flags, Width(W))
    [] Reg = 4 -> Shl(x, Count, k, ByCL, Width(W))
    [] Reg = 5 -> IF ByCL /\ W = 0 THEN ShrByteByCL(x, k, flags, val16)
                  ELSE Shr(x, Count, k, ByCL, flags, Width(W))
    [] OTHER -> Sar(x, Count, k, ByCL, flags, Width(W))

Shift ==
  /\ Operand(W)
  /\ Op \in \hd0 .. \hd3 /\ Reg \in {2, 3, 4, 5, 7}
  /\ IF Shifts
     THEN LET v == Shifted(ReadEA(W), Count).val
              res == Shifted(ReadEA(W), CountAfter(v))
          IN  /\ WriteEA(W, res.val)
              /\ SetZSOC(res)
              /\ val16' = IF W = 1 THEN res.val ELSE val16
     ELSE UNCHANGED <<reg, data, flags, val16>>
  /\ Advance(2 + DispLen)
  /\ Pass
-----------------------------------------------------------------------------
\* 88-8b
MovReg ==
  /\ Operand(W)
  /\ Op \in \h88 .. \h8b
  /\ IF D = 1 THEN reg' = WithRegister(reg, W, Reg, ReadEA(W)) /\ UNCHANGED data
     ELSE WriteEA(W, ReadRegister(W, Reg))
  /\ Advance(2 + DispLen)
  /\ PassKeepingFlags

\* a0-a3: AL or AX and a direct address.
MovAcc ==
  /\ Ready
  /\ Op \in \ha0 .. \ha3 /\ ~Beyond(W, FetchedWord(1))
  /\ IF D = 0 THEN reg' = WithRegister(reg, W, AX, ReadData(W, FetchedWord(1)))
                   /\ UNCHANGED data
     ELSE data' = WriteData(W, FetchedWord(1), ReadRegister(W, AX)) /\ UNCHANGED reg
  /\ Advance(3)
  /\ PassKeepingFlags

\* b0-bf
MovImmReg ==
  /\ Ready
  /\ Op \in \hb0 .. \hbf
  /\ LET w == (Op \div 8) % 2
     IN  reg' = WithRegister(reg, w, Op % 8, Immediate(w, 1)) /\ Advance(2 + w)
  /\ PassKeepingFlags /\ UNCHANGED data

\* c6/c7: ext is not looked at.
MovImmEA ==
  /\ Operand(W)
  /\ Op \in {\hc6, \hc7}
  /\ WriteEA(W, Immediate(W, ImmAt))
  /\ Advance(3 + DispLen + W)
  /\ PassKeepingFlags

\* 8d: the address itself; 0 when r/m is a register.
Lea ==
  /\ Operand(0)
  /\ Op = \h8d
  /\ reg' = WithWord(reg, Reg, IF Mod = 3 THEN 0 ELSE Address)
  /\ Advance(2 + DispLen)
  /\ PassKeepingFlags /\ UNCHANGED data

\* 86/87: writeEA works out the address again, after the register has changed.
XchgEA ==
  /\ Operand(W)
  /\ Op \in {\h86, \h87}
  /\ LET r == WithRegister(reg, W, Reg, ReadEA(W))
         old == ReadRegister(W, Reg)
     IN  /\ Mod # 3 => ~Beyond(W, AddressUnder(r))
         /\ reg' = IF Mod = 3 THEN WithRegister(r, W, Rom, old) ELSE r
         /\ data' = IF Mod = 3 THEN data ELSE WriteData(W, AddressUnder(r), old)
  /\ Advance(2 + DispLen)
  /\ PassKeepingFlags

\* 90-97: 90 exchanges AX with itself.
XchgAcc ==
  /\ Ready
  /\ Op \in \h90 .. \h97
  /\ reg' = WithWord(WithWord(reg, AX, reg[Op % 8]), Op % 8, reg[AX])
  /\ Advance(1)
  /\ PassKeepingFlags /\ UNCHANGED data

\* 98, 99
Convert ==
  /\ Ready
  /\ Op \in {\h98, \h99}
  /\ reg' = IF Op = \h98 THEN WithWord(reg, AX, SignExtend(LowByte(reg[AX])))
            ELSE WithWord(reg, DX, IF TopBit(reg[AX], 65536) THEN 65535 ELSE 0)
  /\ Advance(1)
  /\ PassKeepingFlags /\ UNCHANGED data

\* fc, fd: setDF(false) computes sreg & ~D_BIT and throws it away.
Direction ==
  /\ Ready
  /\ Op \in {\hfc, \hfd}
  /\ flags' = IF Op = \hfd THEN [flags EXCEPT !.d = TRUE] ELSE flags
  /\ Advance(1)
  /\ Pass /\ UNCHANGED <<reg, data, val16>>
-----------------------------------------------------------------------------
\* push: the value is read before SP moves, so push sp stores the old SP.
Pushing(v) ==
  /\ data' = Pushed(v)
  /\ reg' = WithWord(reg, SP, reg[SP] - 2)

\* The registers after the two increments of pop().
Popped == WithWord(reg, SP, reg[SP] + 2)

\* 50-57
PushReg ==
  /\ Ready
  /\ Op \in \h50 .. \h57
  /\ Pushing(reg[Op % 8])
  /\ Advance(1)
  /\ PassKeepingFlags

\* fe/ff, ext 6: fe reads a byte.
PushEA ==
  /\ Operand(W)
  /\ Op \in {\hfe, \hff} /\ Reg = 6
  /\ Pushing(ReadEA(W))
  /\ Advance(2 + DispLen)
  /\ PassKeepingFlags

\* 58-5f
PopReg ==
  /\ Ready
  /\ Op \in \h58 .. \h5f
  /\ reg' = WithWord(Popped, Op % 8, StackTop)
  /\ Advance(1)
  /\ PassKeepingFlags /\ UNCHANGED data

\* 8f, ext 0
PopEA ==
  /\ Operand(1)
  /\ Op = \h8f /\ Reg = 0
  /\ reg' = IF Mod = 3 THEN WithWord(Popped, Rom, StackTop) ELSE Popped
  /\ data' = IF Mod = 3 THEN data ELSE WriteData(1, Address, StackTop)
  /\ Advance(2 + DispLen)
  /\ PassKeepingFlags
-----------------------------------------------------------------------------
\* Jumps are relative to addr after the whole instruction has been fetched.
Relative(n, disp) == addr + n + disp
Short(n) == Relative(n, SignExtend(Fetched(1)))
Near == Relative(3, FetchedWord(1))
GoIf(taken, n) == IF taken THEN JumpTo(Short(n)) ELSE Advance(n)

\* 72-77, 7c-7f
JumpIf ==
  /\ Ready
  /\ Op \in \h70 .. \h7f /\ Op % 16 \in Conditions
  /\ GoIf(Holds(Op % 16, flags), 2)
  /\ PassKeepingFlags /\ UNCHANGED <<reg, data>>

\* e2 and e3
Loop ==
  /\ Ready
  /\ Op = \he2
  /\ reg' = WithWord(reg, CX, reg[CX] - 1)
  /\ GoIf(reg[CX] # 1, 2)
  /\ PassKeepingFlags /\ UNCHANGED data

JumpIfCXZero ==
  /\ Ready
  /\ Op = \he3
  /\ GoIf(reg[CX] = 0, 2)
  /\ PassKeepingFlags /\ UNCHANGED <<reg, data>>

\* e9, eb; fe/ff, ext 4
Jump ==
  /\ Ready
  /\ Op \in {\he9, \heb}
  /\ JumpTo(IF Op = \he9 THEN Near ELSE Short(2))
  /\ PassKeepingFlags /\ UNCHANGED <<reg, data>>

JumpEA ==
  /\ Operand(W)
  /\ Op \in {\hfe, \hff} /\ Reg = 4
  /\ JumpTo(ReadEA(W))
  /\ PassKeepingFlags /\ UNCHANGED <<reg, data>>

\* nextPC() is the return address pushed; the target goes by addr.
ReturnTo(n) == (pc + n) % 65536

\* e8; fe/ff, ext 2: the target is read before the push.
Call ==
  /\ Ready
  /\ Op = \he8
  /\ Pushing(ReturnTo(3))
  /\ JumpTo(Near)
  /\ PassKeepingFlags

CallEA ==
  /\ Operand(W)
  /\ Op \in {\hfe, \hff} /\ Reg = 2
  /\ Pushing(ReturnTo(2 + DispLen))
  /\ JumpTo(ReadEA(W))
  /\ PassKeepingFlags

\* c2, c3: w is 0 in ret imm16, so only the low byte of the immediate is added.
Ret ==
  /\ Ready
  /\ Op \in {\hc2, \hc3}
  /\ reg' = WithWord(reg, SP, reg[SP] + 2 + (IF Op = \hc2 THEN Fetched(1) ELSE 0))
  /\ JumpTo(StackTop)
  /\ PassKeepingFlags /\ UNCHANGED data
-----------------------------------------------------------------------------
\* f2, f3: the prefix is a pass of its own, remembered for the next one.
Repeat ==
  /\ Ready
  /\ Op \in {\hf2, \hf3}
  /\ option' = [active |-> TRUE, z |-> Op % 2]
  /\ Advance(1)
  /\ UNCHANGED <<reg, flags, text, data, stringop, val16, status>>

\* a4, a5, a6, aa, ae: with a prefix and CX = 0 the pass is over at once.
StringStart ==
  /\ Ready
  /\ Op \in StringOps
  /\ Advance(1)
  /\ IF option.active /\ reg[CX] = 0
     THEN Flush /\ UNCHANGED stringop
     ELSE stringop' = Op /\ UNCHANGED option
  /\ UNCHANGED <<reg, flags, text, data, val16, status>>

\* SI and DI move together by the size of the element, down when D is set.
Size == IF stringop = \ha5 THEN 2 ELSE 1
\* Mutant of Delta: the direction flag is not looked at.
DeltaUp == Size

Delta == IF flags.d THEN -Size ELSE Size
UsesSI == stringop \in {\ha4, \ha5, \ha6}
Moved ==
  WithWord(IF UsesSI THEN WithWord(reg, SI, reg[SI] + Delta) ELSE reg, DI, reg[DI] + Delta)

\* Mutant of ElementCompared: the operands the other way round.
ElementSwapped ==
  Sub(At(data, reg[DI]),
      IF stringop = \ha6 THEN At(data, reg[SI]) ELSE LowByte(reg[AX]), 256)

\* cmpsb subtracts [DI] from [SI], scasb [DI] from AL.
ElementCompared ==
  Sub(IF stringop = \ha6 THEN At(data, reg[SI]) ELSE LowByte(reg[AX]),
      At(data, reg[DI]), 256)
Compares == stringop \in {\ha6, \hae}

\* Mutant of Counted: the registers are moved behind the while loop, not in it.
CountedBehind == IF option.active /\ reg[CX] # 1 THEN reg ELSE Moved

\* SI, DI and, under a prefix, CX after one turn.
Counted == IF option.active THEN WithWord(Moved, CX, reg[CX] - 1) ELSE Moved

\* The tests at the end of the while loop, in their order; z is the new Z.
LoopsAgain(z) ==
  /\ option.active
  /\ reg[CX] # 1
  /\ Compares => (option.z = 1 <=> z)

\* One turn of the while loop.  ES and DS stay 0.
StringElement ==
  /\ Running /\ stringop # 0
  /\ ~(stringop = \ha5 /\ 65535 \in {reg[SI], reg[DI]})
  /\ data' = CASE stringop = \ha4 -> Store(data, reg[DI], At(data, reg[SI]))
               [] stringop = \ha5 -> StoreWord(data, reg[DI], ReadData(1, reg[SI]))
               [] stringop = \haa -> Store(data, reg[DI], LowByte(reg[AX]))
               [] OTHER -> data
  /\ IF Compares THEN SetZSOC(ElementCompared) ELSE UNCHANGED flags
  /\ reg' = Counted
  /\ IF LoopsAgain(flags'.z) THEN UNCHANGED <<option, stringop>>
     ELSE Flush /\ stringop' = 0
  /\ UNCHANGED <<text, pc, addr, val16, status>>
-----------------------------------------------------------------------------
\* The m_type values execSysCall has a case for; 1 is exit and 59 is exec.
SystemCalls == {1, 2, 3, 4, 5, 6, 7, 8, 10, 13, 15, 17, 18, 19, 20, 24, 33, 47, 48, 54, 59, 71}

\* cd, whatever its number: the message lies at BX.  trace_f stays NULL, so only
\* the trace's serialize() drops a prefix.
Interrupting ==
  /\ Ready
  /\ Op = \hcd
  /\ reg[BX] + 3 <= 65535
  /\ option' = IF Debug THEN NoOption ELSE option
MType == ReadData(1, reg[BX] + 2)

\* Any call but exit and exec: AX is cleared or not, buffers and m_type are stored.
SystemCall ==
  /\ Interrupting
  /\ MType \in SystemCalls \ {1, 59}
  /\ \E stored \in OsStores, reply \in OsReplies, ax \in {0, reg[AX]} :
       /\ data' = StoreWord(StoreAll(data, stored), reg[BX] + 2, reply)
       /\ reg' = WithWord(reg, AX, ax)
  /\ Advance(2)
  /\ UNCHANGED <<flags, text, stringop, val16, status>>

\* exec: a new image, pc and SP; every other register and the flags stay, and
\* the reply is stored where BX points in the new image.
ExecCall ==
  /\ Interrupting
  /\ MType = 59
  /\ \E l \in Loads :
       /\ text' = l.text
       /\ data' = StoreWord(l.data, reg[BX] + 2, 0)
       /\ reg' = WithWord(reg, SP, l.sp)
  /\ pc' = 0 /\ addr' = 0
  /\ UNCHANGED <<flags, stringop, val16, status>>

\* exit ends the loop with its result, an unknown call ends the interpreter, and so
\* may exec: of a file that is not there, the sizes it copies by are uninitialised.
LastCall ==
  /\ Interrupting
  /\ MType \in {1, 59} \/ MType \notin SystemCalls
  /\ status' = CASE MType = 1 -> "returned" [] MType = 59 -> "crash" [] OTHER -> "exit"
  /\ Advance(2)
  /\ UNCHANGED <<reg, flags, text, data, stringop, val16>>
-----------------------------------------------------------------------------
Opcodes == ModRM
  \cup ({8 * k + i : k \in 0 .. 7, i \in {4, 5}} \ {\h34, \h35})
  \cup \h40 .. \h5f \cup {\h70 + cc : cc \in Conditions} \cup \h90 .. \h99
  \cup \ha0 .. \ha6 \cup {\ha8, \ha9, \haa, \hae} \cup \hb0 .. \hbf
  \cup {\hc2, \hc3, \hcd, \he2, \he3, \he8, \he9, \heb, \hf2, \hf3, \hfc, \hfd}

\* The exit(1) of the default cases and of getEAddress.
Unsupported ==
  \/ Op \notin Opcodes
  \/ Op \in ModRM /\ Refused
  \/ Op \in {\h80, \h81, \h83} /\ (Reg = 6 \/ (Reg = 1 /\ Op = \h83))
  \/ Op = \h8f /\ Reg # 0
  \/ Op \in \hd0 .. \hd3 /\ Reg \in {0, 1, 6}
  \/ Op \in {\hf6, \hf7} /\ Reg \in {1, 5}
  \/ Op \in {\hfe, \hff} /\ Reg \in {3, 5, 7}

Refuse ==
  /\ Ready
  /\ Unsupported
  /\ status' = "exit"
  /\ reg' = IF Op = \h8f /\ Reg = 0 THEN Popped ELSE reg
  /\ UNCHANGED <<flags, text, data, pc, addr, option, stringop, val16>>

\* An operand that reaches past d_memory.
OperandBeyond ==
  \/ Op \in ModRM \ {\h8d} /\ Mod # 3 /\ Beyond(W, Address)
  \/ Op \in {\h86, \h87} /\ Mod # 3
     /\ Beyond(W, AddressUnder(WithRegister(reg, W, Reg, ReadEA(W))))
  \/ Op \in \ha0 .. \ha3 /\ Beyond(W, FetchedWord(1))
  \/ Op = \hcd /\ reg[BX] + 3 > 65535

\* What the interpreter does after leaving its arrays is not modelled.
Overrun ==
  /\ Running
  /\ \/ stringop = 0 /\ pc >= 65536
     \/ Ready /\ ~Unsupported /\ OperandBeyond
     \/ stringop = \ha5 /\ 65535 \in {reg[SI], reg[DI]}
  /\ status' = "overrun"
  /\ UNCHANGED <<reg, flags, text, data, pc, addr, option, stringop, val16>>

\* run() has returned or the host process is gone.
Stopped == ~Running /\ UNCHANGED vars
-----------------------------------------------------------------------------
Arithmetic ==
  \/ AluReg \/ AluAcc \/ AluImm \/ IncDecReg \/ IncDecEA
  \/ TestReg \/ TestAcc \/ TestImm \/ Not \/ Negate
  \/ Multiply \/ Divide \/ SignedDivide \/ DivideCrash \/ Shift
Transfer ==
  \/ MovReg \/ MovAcc \/ MovImmReg \/ MovImmEA \/ Lea
  \/ XchgEA \/ XchgAcc \/ Convert \/ Direction
  \/ PushReg \/ PushEA \/ PopReg \/ PopEA
Control ==
  \/ JumpIf \/ Loop \/ JumpIfCXZero \/ Jump \/ JumpEA \/ Call \/ CallEA \/ Ret
String == Repeat \/ StringStart \/ StringElement
Ending == Refuse \/ Overrun \/ Stopped
Next ==
  \/ Arithmetic \/ Transfer \/ Control \/ String
  \/ SystemCall \/ ExecCall \/ LastCall
  \/ Ending

\* The loop runs on until it ends: there is one process and nothing else to wait for.
Spec == Init /\ [][Next]_vars /\ WF_vars(Next)
-----------------------------------------------------------------------------
Flags == [z : BOOLEAN, s : BOOLEAN, o : BOOLEAN, c : BOOLEAN, d : BOOLEAN]

\* Every register, byte and counter stays in the range of its C++ type, and the
\* loop is in one of the states run() can be in.
TypeOK ==
  /\ reg \in [0 .. 7 -> Word]
  /\ flags \in Flags
  /\ IsMemory(text) /\ IsMemory(data)
  /\ pc \in Values(65544) /\ addr \in Word
  /\ option \in [active : BOOLEAN, z : {0, 1}]
  /\ stringop \in StringOps \cup {0}
  /\ val16 \in Word
  /\ status \in Statuses

\* nextPC() and the member addr name the same place: call pushes one and computes
\* its target from the other.
AddrFollowsPc == addr = pc % 65536

\* In a traced run a repeat prefix acts on the instruction it is written before and
\* on no other: a string instruction repeats only right after a prefix.
PrefixIsSpent ==
  [][StringStart /\ option.active => At(text, pc - 1) \in {\hf2, \hf3}]_vars

\* The address of an instruction's r/m operand is that of the registers before it,
\* but for xchg, which works it out again after it has changed one of them.
StoreAddress == AddressUnder(IF Op \in {\h86, \h87} THEN reg' ELSE reg)

\* The bytes an instruction may store to: its memory operand, a direct address, the
\* word below SP, the element at DI.
StoreTargets ==
  IF stringop # 0 THEN {reg[DI], reg[DI] + 1}
  ELSE IF Op \in \ha2 .. \ha3 THEN {FetchedWord(1), FetchedWord(1) + 1}
  ELSE IF Op \in \h50 .. \h57 \/ Op = \he8 \/ (Op \in {\hfe, \hff} /\ Reg \in {2, 6})
       THEN {(reg[SP] - 1) % 65536, (reg[SP] - 2) % 65536}
  ELSE IF Op \in ModRM /\ Mod # 3
       THEN {StoreAddress, (StoreAddress + W) % 65536}
  ELSE {}

\* No instruction changes a byte of data memory outside those it names: operand
\* decoding, stack wrap-around and the string loops never stray.  Two are spoken of
\* elsewhere: int, which stores what was asked for, and the address of xchg.
StoresStayInOperand ==
  [][Op # \hcd \/ stringop # 0 =>
       \A a \in DOMAIN data' : At(data', a) # At(data, a) => a \in StoreTargets]_vars
=============================================================================
