-------------------------- MODULE X86RuntimeProofs --------------------------
(***************************************************************************)
(* Proofs about X86Runtime for every program, argument list, answer of the *)
(* operating system and content of the uninitialised local: the machine    *)
(* stays in the ranges of its C++ types, and addr follows pc.  First what  *)
(* the operators of a pass return, then one lemma for each action.         *)
(***************************************************************************)
EXTENDS X86Runtime, X86AluProofs

Registers == [0 .. 7 -> Word]

\* What TypeOK says of each variable, in the form the lemmas below take it.
LEMMA TypeFacts ==
  ASSUME TypeOK
  PROVE  /\ reg \in Registers
         /\ flags \in Flags /\ AreBooleans(flags)
         /\ IsMemory(text) /\ IsMemory(data)
         /\ pc \in Nat /\ pc < 65544 /\ pc \in Int
         /\ addr \in Word /\ addr \in Int
         /\ option \in [active : BOOLEAN, z : {0, 1}]
         /\ stringop \in StringOps \cup {0}
         /\ val16 \in Word
         /\ status \in Statuses
<1>1. pc \in Nat /\ pc < 65544 /\ pc \in Int BY InValues DEF TypeOK
<1>2. addr \in Int BY InWord DEF TypeOK
<1>3. flags \in Flags BY DEF TypeOK
<1>4. AreBooleans(flags) BY <1>3 DEF Flags, AreBooleans
<1> QED BY <1>1, <1>2, <1>3, <1>4 DEF TypeOK, Registers
-----------------------------------------------------------------------------
\* Memory.
LEMMA AtByte == ASSUME NEW m, IsMemory(m), NEW a PROVE At(m, a) \in Byte
BY InByte DEF IsMemory, At

LEMMA StoreMemory ==
  ASSUME NEW m, IsMemory(m), NEW a \in Word, NEW v \in Byte
  PROVE  IsMemory(Store(m, a, v))
BY DEF IsMemory, Store

LEMMA StoreWordMemory ==
  ASSUME NEW m, IsMemory(m), NEW a \in Word, a # 65535, NEW v \in Int
  PROVE  IsMemory(StoreWord(m, a, v))
<1>1. LowByte(v) \in Byte /\ HighByte(v) \in Byte BY HalvesAreBytes
<1>2. a + 1 \in Word BY InWord
<1>3. IsMemory(Store(m, a, LowByte(v))) BY <1>1, StoreMemory
<1> QED BY <1>1, <1>2, <1>3, StoreMemory DEF StoreWord

LEMMA StoreAllMemory ==
  ASSUME NEW m, NEW n, IsMemory(m), IsMemory(n)
  PROVE  IsMemory(StoreAll(m, n))
BY DEF IsMemory, StoreAll

LEMMA ReadDataType ==
  ASSUME TypeOK, NEW w \in {0, 1}, NEW a
  PROVE  ReadData(w, a) \in Word /\ (w = 0 => ReadData(w, a) \in Byte)
<1>1. At(data, a) \in Byte /\ At(data, a + 1) \in Byte BY TypeFacts, AtByte
<1>2. Pair(At(data, a), At(data, a + 1)) \in Word BY <1>1, PairIsWord
<1> QED BY <1>1, <1>2, ByteIsWord DEF ReadData

LEMMA WriteDataType ==
  ASSUME TypeOK, NEW w \in {0, 1}, NEW a \in Word, ~Beyond(w, a), NEW v \in Int
  PROVE  IsMemory(WriteData(w, a, v))
<1>1. IsMemory(data) BY TypeFacts
<1>2. LowByte(v) \in Byte BY HalvesAreBytes
<1>3. CASE w = 1
  <2>1. a # 65535 BY <1>3 DEF Beyond
  <2> QED BY <1>1, <1>3, <2>1, StoreWordMemory DEF WriteData
<1>4. CASE w = 0 BY <1>1, <1>2, <1>4, StoreMemory DEF WriteData
<1> QED BY <1>3, <1>4

LEMMA FetchedType ==
  ASSUME TypeOK, NEW k
  PROVE  /\ Fetched(k) \in Byte /\ Fetched(k) \in Word /\ Fetched(k) \in Int
         /\ FetchedWord(k) \in Word /\ FetchedWord(k) \in Int
<1>1. \A j : Fetched(j) \in Byte BY TypeFacts, AtByte DEF Fetched
<1>2. FetchedWord(k) \in Word BY <1>1, PairIsWord DEF FetchedWord
<1> QED BY <1>1, <1>2, ByteIsWord, WordIsInt
-----------------------------------------------------------------------------
\* Registers.
LEMMA WithRegisterType ==
  ASSUME NEW r \in Registers, NEW i \in 0 .. 7, NEW w \in {0, 1}, NEW v \in Int
  PROVE  WithRegister(r, w, i, v) \in Registers
<1>1. v % 65536 \in Word BY ModWord
<1>2. CASE w = 1 BY <1>1, <1>2 DEF WithRegister, Registers
<1>3. CASE w = 0 /\ i < 4
  <2>1. r[i] \in Int BY InWord DEF Registers
  <2>2. Pair(LowByte(v), HighByte(r[i])) \in Word BY <2>1, HalvesAreBytes, PairIsWord
  <2> QED BY <1>3, <2>2 DEF WithRegister, Registers
<1>4. CASE w = 0 /\ i >= 4
  <2>1. i - 4 \in 0 .. 7 /\ r[i - 4] \in Int BY <1>4, InWord DEF Registers
  <2>2. Pair(LowByte(r[i - 4]), LowByte(v)) \in Word BY <2>1, HalvesAreBytes, PairIsWord
  <2> QED BY <1>4, <2>1, <2>2 DEF WithRegister, Registers
<1> QED BY <1>2, <1>3, <1>4

LEMMA WithWordType ==
  ASSUME NEW r \in Registers, NEW i \in 0 .. 7, NEW v \in Int
  PROVE  WithWord(r, i, v) \in Registers
BY ModWord DEF WithWord, Registers

LEMMA ReadRegisterType ==
  ASSUME TypeOK, NEW w \in {0, 1}, NEW i \in 0 .. 7
  PROVE  ReadRegister(w, i) \in Word /\ (w = 0 => ReadRegister(w, i) \in Byte)
<1>1. \A j \in 0 .. 7 : reg[j] \in Word BY TypeFacts DEF Registers
<1>2. \A j \in 0 .. 7 : LowByte(reg[j]) \in Byte /\ HighByte(reg[j]) \in Byte
      BY <1>1, WordIsInt, HalvesAreBytes
<1>3. CASE w = 1 BY <1>1, <1>3 DEF ReadRegister
<1>4. CASE w = 0 /\ i < 4 BY <1>2, <1>4, ByteIsWord DEF ReadRegister
<1>5. CASE w = 0 /\ i >= 4
  <2>1. i - 4 \in 0 .. 7 BY <1>5
  <2> QED BY <1>2, <1>5, <2>1, ByteIsWord DEF ReadRegister
<1> QED BY <1>3, <1>4, <1>5

LEMMA NamedRegisters ==
  /\ AX \in 0 .. 7 /\ CX \in 0 .. 7 /\ DX \in 0 .. 7 /\ BX \in 0 .. 7
  /\ SP \in 0 .. 7 /\ BP \in 0 .. 7 /\ SI \in 0 .. 7 /\ DI \in 0 .. 7
BY DEF AX, CX, DX, BX, SP, BP, SI, DI

LEMMA RegisterIsWord ==
  ASSUME TypeOK, NEW i \in 0 .. 7
  PROVE  reg[i] \in Word /\ reg[i] \in Int
BY TypeFacts, WordIsInt DEF Registers
-----------------------------------------------------------------------------
\* The fields of an instruction.
LEMMA DecodeType ==
  ASSUME TypeOK
  PROVE  /\ Op \in Byte /\ Op \in Int /\ Op \in Nat
         /\ W \in {0, 1} /\ D \in {0, 1}
         /\ Mod \in 0 .. 3 /\ Reg \in 0 .. 7 /\ Rom \in 0 .. 7
         /\ DispLen \in 0 .. 2
<1>1. Op \in Byte /\ Fetched(1) \in Byte BY FetchedType DEF Op
<1>2. Op \in Int /\ 0 <= Op /\ Op < 256 BY <1>1, InByte
<1>3. Fetched(1) \in Int /\ 0 <= Fetched(1) /\ Fetched(1) < 256 BY <1>1, InByte
<1>4. W \in {0, 1} /\ D \in {0, 1} BY <1>2 DEF W, D
<1>5. Mod \in 0 .. 3 /\ Reg \in 0 .. 7 /\ Rom \in 0 .. 7 BY <1>3 DEF Mod, Reg, Rom
<1>6. DispLen \in 0 .. 2 BY DEF DispLen
<1> QED BY <1>1, <1>2, <1>4, <1>5, <1>6

LEMMA WidthType == \A w \in {0, 1} : Width(w) \in Widths
BY DEF Width, Widths

LEMMA ImmediateType ==
  ASSUME TypeOK, NEW w \in {0, 1}, NEW k
  PROVE  Immediate(w, k) \in Word /\ Immediate(w, k) \in Int
BY FetchedType DEF Immediate

LEMMA ImmediateSWType == ASSUME TypeOK PROVE ImmediateSW \in Word /\ ImmediateSW \in Int
<1>1. SignExtend(Fetched(ImmAt)) \in Word BY FetchedType, SignExtendIsWord
<1>2. Immediate(W, ImmAt) \in Word BY DecodeType, ImmediateType
<1>3. ImmediateSW \in Word BY <1>1, <1>2 DEF ImmediateSW
<1> QED BY <1>3, WordIsInt

LEMMA AddressType ==
  ASSUME TypeOK, NEW r \in Registers
  PROVE  AddressUnder(r) \in Word
<1>1. \A i \in 0 .. 7 : r[i] \in Int BY WordIsInt DEF Registers
<1>2. Base(r) \in Int BY <1>1, NamedRegisters DEF Base
<1>3. Disp \in Word
  <2>1. FetchedWord(2) \in Word BY FetchedType
  <2>2. SignExtend(Fetched(2)) \in Word BY FetchedType, SignExtendIsWord
  <2>3. 0 \in Word BY InWord
  <2> QED BY <2>1, <2>2, <2>3 DEF Disp
<1>4. (Base(r) + Disp) % 65536 \in Word BY <1>2, <1>3, WordIsInt, ModWord
<1> QED BY <1>3, <1>4 DEF AddressUnder

LEMMA ReadEAType ==
  ASSUME TypeOK, NEW w \in {0, 1}
  PROVE  /\ ReadEA(w) \in Word /\ ReadEA(w) \in Int
         /\ w = 0 => ReadEA(w) \in Byte
<1>1. Rom \in 0 .. 7 BY DecodeType
<1>2. ReadRegister(w, Rom) \in Word /\ (w = 0 => ReadRegister(w, Rom) \in Byte)
      BY <1>1, ReadRegisterType
<1>3. ReadData(w, Address) \in Word /\ (w = 0 => ReadData(w, Address) \in Byte)
      BY ReadDataType
<1>4. ReadEA(w) \in Word /\ (w = 0 => ReadEA(w) \in Byte) BY <1>2, <1>3 DEF ReadEA
<1> QED BY <1>4, WordIsInt

LEMMA WriteEAType ==
  ASSUME TypeOK, NEW w \in {0, 1}, Operand(w), NEW v \in Int, WriteEA(w, v)
  PROVE  reg' \in Registers /\ IsMemory(data')
<1>1. Rom \in 0 .. 7 /\ reg \in Registers /\ IsMemory(data) BY TypeFacts, DecodeType
<1>2. CASE Mod = 3 BY <1>1, <1>2, WithRegisterType DEF WriteEA
<1>3. CASE Mod # 3
  <2>1. Address \in Word BY <1>1, AddressType DEF Address
  <2>2. ~Beyond(w, Address) BY <1>3 DEF Operand
  <2>3. IsMemory(WriteData(w, Address, v)) BY <2>1, <2>2, WriteDataType
  <2> QED BY <1>1, <1>3, <2>3 DEF WriteEA
<1> QED BY <1>2, <1>3
-----------------------------------------------------------------------------
\* The stack.
LEMMA StackTopType == ASSUME TypeOK PROVE StackTop \in Word /\ StackTop \in Int
<1>1. IsMemory(data) BY TypeFacts
<1>2. \A a : At(data, a) \in Byte BY <1>1, AtByte
<1>3. StackTop \in Word BY <1>2, PairIsWord DEF StackTop
<1> QED BY <1>3, WordIsInt

LEMMA PushingType ==
  ASSUME TypeOK, NEW v \in Int, Pushing(v)
  PROVE  reg' \in Registers /\ IsMemory(data')
<1>1. reg[SP] \in Int /\ reg \in Registers /\ IsMemory(data) /\ SP \in 0 .. 7
      BY TypeFacts, NamedRegisters, RegisterIsWord
<1>2. (reg[SP] - 1) % 65536 \in Word /\ (reg[SP] - 2) % 65536 \in Word BY <1>1, ModWord
<1>3. LowByte(v) \in Byte /\ HighByte(v) \in Byte BY HalvesAreBytes
<1>4. IsMemory(Pushed(v)) BY <1>1, <1>2, <1>3, StoreMemory DEF Pushed
<1>5. reg[SP] - 2 \in Int BY <1>1
<1>6. WithWord(reg, SP, reg[SP] - 2) \in Registers BY <1>1, <1>5, WithWordType
<1> QED BY <1>4, <1>6 DEF Pushing

LEMMA PoppedType == ASSUME TypeOK PROVE Popped \in Registers
<1>1. reg[SP] + 2 \in Int /\ reg \in Registers /\ SP \in 0 .. 7
      BY TypeFacts, NamedRegisters, RegisterIsWord
<1> QED BY <1>1, WithWordType DEF Popped
-----------------------------------------------------------------------------
\* Where a step leaves pc and addr: in range, and together if they were together.
Placed ==
  /\ pc' \in Values(65544) /\ addr' \in Word
  /\ AddrFollowsPc => AddrFollowsPc'

LEMMA AdvanceType ==
  ASSUME TypeOK, Ready, NEW n \in 0 .. 8, Advance(n)
  PROVE  Placed
<1>1. pc \in Nat /\ pc < 65536 /\ addr \in Int BY TypeFacts DEF Ready
<1>2. pc' = pc + n /\ addr' = (addr + n) % 65536 BY DEF Advance
<1>3. pc' \in Values(65544) BY <1>1, <1>2, InValues
<1>4. addr' \in Word BY <1>1, <1>2, ModWord
<1>5. addr = pc % 65536 => addr' = pc' % 65536 BY <1>1, <1>2
<1> QED BY <1>3, <1>4, <1>5 DEF Placed, AddrFollowsPc

LEMMA JumpToType ==
  ASSUME NEW a \in Int, JumpTo(a)
  PROVE  Placed
<1>1. pc' = a % 65536 /\ addr' = a % 65536 BY DEF JumpTo
<1>2. a % 65536 \in Int /\ 0 <= a % 65536 /\ a % 65536 < 65536 OBVIOUS
<1>3. pc' \in Values(65544) /\ addr' \in Word BY <1>1, <1>2, InValues, InWord
<1>4. addr' = pc' % 65536 BY <1>1, <1>2
<1> QED BY <1>3, <1>4 DEF Placed, AddrFollowsPc

LEMMA StayingType ==
  ASSUME TypeOK, pc' = pc, addr' = addr
  PROVE  Placed
BY DEF TypeOK, Placed, AddrFollowsPc

LEMMA RelativeType ==
  ASSUME TypeOK, NEW n \in 0 .. 8
  PROVE  Short(n) \in Int /\ Near \in Int
<1>1. addr \in Int /\ FetchedWord(1) \in Int BY TypeFacts, FetchedType
<1>2. SignExtend(Fetched(1)) \in Int BY FetchedType, SignExtendIsWord, WordIsInt
<1> QED BY <1>1, <1>2 DEF Short, Near, Relative

LEMMA GoIfType ==
  ASSUME TypeOK, Ready, NEW n \in 0 .. 8, NEW taken, GoIf(taken, n)
  PROVE  Placed
<1>1. CASE taken BY <1>1, RelativeType, JumpToType DEF GoIf
<1>2. CASE ~taken BY <1>2, AdvanceType DEF GoIf
<1> QED BY <1>1, <1>2
-----------------------------------------------------------------------------
\* What an action must show: the rest of TypeOK' follows from Pass.
Typed == TypeOK' /\ (AddrFollowsPc => AddrFollowsPc')

LEMMA PassType ==
  ASSUME TypeOK, Pass, Placed, reg' \in Registers, flags' \in Flags, IsMemory(data'),
         val16' \in Word
  PROVE  Typed
<1>1. option' \in [active : BOOLEAN, z : {0, 1}] BY DEF Pass, Flush, NoOption
<1>2. /\ IsMemory(text') /\ stringop' \in StringOps \cup {0} /\ status' \in Statuses
      BY DEF TypeOK, Pass
<1> QED BY <1>1, <1>2 DEF TypeOK, Typed, Placed, Registers

LEMMA PassKeepingFlagsType ==
  ASSUME TypeOK, PassKeepingFlags, Placed, reg' \in Registers, IsMemory(data')
  PROVE  Typed
<1>1. Pass /\ flags' = flags /\ val16' = val16 BY DEF PassKeepingFlags
<1>2. flags' \in Flags /\ val16' \in Word BY <1>1, TypeFacts
<1> QED BY <1>1, <1>2, PassType

LEMMA SetZSOCType ==
  ASSUME TypeOK, NEW m \in Widths, NEW res \in Outcomes(m), SetZSOC(res)
  PROVE  flags' \in Flags
<1>1. /\ res.z \in BOOLEAN /\ res.s \in BOOLEAN /\ res.o \in BOOLEAN /\ res.c \in BOOLEAN
      BY DEF Outcomes
<1>2. flags.d \in BOOLEAN BY TypeFacts DEF Flags
<1> QED BY <1>1, <1>2 DEF SetZSOC, Flags

LEMMA OutcomeValue ==
  ASSUME NEW m \in Widths, NEW res \in Outcomes(m)
  PROVE  res.val \in Word /\ res.val \in Int /\ (m = 256 => res.val \in Byte)
<1>1. res.val \in Values(m) BY DEF Outcomes
<1>2. m = 256 \/ m = 65536 BY DEF Widths
<1>3. (m = 256 => res.val \in Byte) /\ (m = 65536 => res.val \in Word)
      BY <1>1 DEF Byte, Word
<1> QED BY <1>2, <1>3, ByteIsWord, WordIsInt
-----------------------------------------------------------------------------
\* How far a pass advances.
LEMMA Lengths ==
  ASSUME TypeOK
  PROVE  /\ 2 + DispLen \in 0 .. 8 /\ 3 + DispLen \in 0 .. 8
         /\ 3 + DispLen + W \in 0 .. 8 /\ 2 + W \in 0 .. 8
BY DecodeType

\* Arithmetic, one lemma for each action.
LEMMA AluRegType == ASSUME TypeOK, AluReg PROVE Typed
<1> DEFINE x == IF D = 1 THEN ReadRegister(W, Reg) ELSE ReadEA(W)
           y == IF D = 1 THEN ReadEA(W) ELSE ReadRegister(W, Reg)
           res == TwoOperand(Kind, x, y, flags, Width(W))
<1>1. x \in Int /\ y \in Int BY DecodeType, ReadRegisterType, ReadEAType, WordIsInt
<1>2. Kind \in 0 .. 7 BY DecodeType DEF AluReg, Kind
<1>3. Width(W) \in Widths BY DecodeType, WidthType
<1>4. Operand(W) /\ Ready BY DEF AluReg, Operand
<1> HIDE DEF x, y
<1>5. res \in Outcomes(Width(W)) BY <1>1, <1>2, <1>3, TwoOperandType
<1>6. /\ IF Kind = 7 THEN UNCHANGED <<reg, data>>
         ELSE IF D = 1 THEN reg' = WithRegister(reg, W, Reg, res.val) /\ UNCHANGED data
         ELSE WriteEA(W, res.val)
      /\ SetZSOC(res)
      /\ val16' = IF W = 1 THEN res.val
                  ELSE IF Kind \in {1, 6} THEN SignExtend(res.val) ELSE val16
      /\ Advance(2 + DispLen) /\ Pass
      BY DEF AluReg, x, y
<1> HIDE DEF res
<1>7. res.val \in Word /\ res.val \in Int BY <1>3, <1>5, OutcomeValue
<1>8. reg' \in Registers /\ IsMemory(data')
  <2>1. reg \in Registers /\ IsMemory(data) /\ W \in {0, 1} /\ Reg \in 0 .. 7
        BY TypeFacts, DecodeType
  <2>2. WithRegister(reg, W, Reg, res.val) \in Registers BY <1>7, <2>1, WithRegisterType
  <2>3. CASE Kind = 7 BY <1>6, <2>1, <2>3
  <2>4. CASE Kind # 7 /\ D = 1 BY <1>6, <2>1, <2>2, <2>4
  <2>5. CASE Kind # 7 /\ D # 1
    <3>1. WriteEA(W, res.val) BY <1>6, <2>5
    <3> QED BY <1>4, <1>7, <2>1, <3>1, WriteEAType
  <2> QED BY <2>3, <2>4, <2>5
<1>9. flags' \in Flags BY <1>3, <1>5, <1>6, SetZSOCType
<1>10. val16' \in Word BY <1>6, <1>7, TypeFacts, SignExtendIsWord
<1>11. Placed BY <1>4, <1>6, Lengths, AdvanceType
<1> QED BY <1>6, <1>8, <1>9, <1>10, <1>11, PassType

\* The actions that write an outcome to r/m and keep it in val16 when it is wide.
LEMMA WrittenType ==
  ASSUME TypeOK, Operand(W), Pass, NEW res \in Outcomes(Width(W)),
         WriteEA(W, res.val) \/ UNCHANGED <<reg, data>>, SetZSOC(res),
         val16' = IF W = 1 THEN res.val ELSE val16, Placed
  PROVE  Typed
<1>1. W \in {0, 1} /\ Width(W) \in Widths BY DecodeType, WidthType
<1>2. res.val \in Word /\ res.val \in Int BY <1>1, OutcomeValue
<1>3. reg' \in Registers /\ IsMemory(data') BY <1>1, <1>2, WriteEAType, TypeFacts
<1>4. flags' \in Flags BY <1>1, SetZSOCType
<1>5. val16' \in Word BY <1>2, TypeFacts
<1> QED BY <1>3, <1>4, <1>5, PassType

LEMMA AluAccType == ASSUME TypeOK, AluAcc PROVE Typed
<1> DEFINE res == TwoOperand(Kind, ReadRegister(W, AX), Immediate(W, 1), flags, Width(W))
<1>1. ReadRegister(W, AX) \in Int /\ Immediate(W, 1) \in Int
      BY DecodeType, NamedRegisters, ReadRegisterType, ImmediateType, WordIsInt
<1>2. Kind \in 0 .. 7 BY DecodeType DEF AluAcc, Kind
<1>3. W \in {0, 1} /\ Width(W) \in Widths BY DecodeType, WidthType
<1>4. res \in Outcomes(Width(W)) BY <1>1, <1>2, <1>3, TwoOperandType
<1>5. /\ reg' = IF Kind = 7 THEN reg ELSE WithRegister(reg, W, AX, res.val)
      /\ SetZSOC(res)
      /\ val16' = IF W = 1 THEN res.val ELSE val16
      /\ Advance(2 + W) /\ Pass /\ data' = data /\ Ready
      BY DEF AluAcc
<1> HIDE DEF res
<1>6. res.val \in Word /\ res.val \in Int BY <1>3, <1>4, OutcomeValue
<1>7. reg' \in Registers
  <2>1. reg \in Registers /\ AX \in 0 .. 7 BY TypeFacts, NamedRegisters
  <2>2. WithRegister(reg, W, AX, res.val) \in Registers BY <1>3, <1>6, <2>1, WithRegisterType
  <2> QED BY <1>5, <2>1, <2>2
<1>8. flags' \in Flags BY <1>3, <1>4, <1>5, SetZSOCType
<1>9. val16' \in Word BY <1>5, <1>6, TypeFacts
<1>10. Placed BY <1>5, Lengths, AdvanceType
<1> QED BY <1>5, <1>7, <1>8, <1>9, <1>10, TypeFacts, PassType

LEMMA AluImmType == ASSUME TypeOK, AluImm PROVE Typed
<1> DEFINE x == ReadEA(W)
           y == IF Reg = 4 /\ Op = \h80 THEN x ELSE ImmediateSW
           res == TwoOperand(Reg, x, y, flags, Width(W))
<1>1. x \in Int /\ y \in Int BY DecodeType, ReadEAType, ImmediateSWType
<1>2. Reg \in 0 .. 7 /\ Width(W) \in Widths BY DecodeType, WidthType
<1> HIDE DEF x, y
<1>3. res \in Outcomes(Width(W)) BY <1>1, <1>2, TwoOperandType
<1>4. /\ IF Reg = 7 THEN UNCHANGED <<reg, data>> ELSE WriteEA(W, res.val)
      /\ SetZSOC(res)
      /\ val16' = IF W = 1 THEN res.val ELSE val16
      /\ Advance(3 + DispLen + (IF Op = \h81 THEN 1 ELSE 0)) /\ Pass /\ Operand(W)
      BY DEF AluImm, x, y
<1> HIDE DEF res
<1>5. 3 + DispLen + (IF Op = \h81 THEN 1 ELSE 0) \in 0 .. 8 BY DecodeType
<1>6. Placed BY <1>4, <1>5, AdvanceType DEF Operand
<1> QED BY <1>3, <1>4, <1>6, WrittenType

LEMMA IncDecRegType == ASSUME TypeOK, IncDecReg PROVE Typed
<1> DEFINE x == reg[Op % 8]
           res == IF Op < \h48 THEN Inc(x, flags, 65536) ELSE Dec(x, flags, 65536)
<1>1. Op % 8 \in 0 .. 7 BY DecodeType
<1>2. x \in Int BY <1>1, RegisterIsWord
<1>3. 65536 \in Widths BY DEF Widths
<1>4. flags.c \in BOOLEAN BY TypeFacts DEF AreBooleans
<1>5. res \in Outcomes(65536) BY <1>2, <1>3, <1>4, IncType
<1>6. /\ reg' = WithWord(reg, Op % 8, res.val) /\ SetZSOC(res) /\ val16' = res.val
      /\ Advance(1) /\ Pass /\ data' = data /\ Ready
      BY DEF IncDecReg
<1> HIDE DEF res
<1>7. res.val \in Word /\ res.val \in Int BY <1>3, <1>5, OutcomeValue
<1>8. reg' \in Registers
  <2>1. reg \in Registers BY TypeFacts
  <2>2. WithWord(reg, Op % 8, res.val) \in Registers BY <1>1, <1>7, <2>1, WithWordType
  <2> QED BY <1>6, <2>2
<1>9. flags' \in Flags BY <1>3, <1>5, <1>6, SetZSOCType
<1>10. Placed BY <1>6, AdvanceType
<1> QED BY <1>6, <1>7, <1>8, <1>9, <1>10, TypeFacts, PassType

LEMMA IncDecEAType == ASSUME TypeOK, IncDecEA PROVE Typed
<1> DEFINE x == ReadEA(W)
           res == IF Reg = 0 THEN Inc(x, flags, Width(W)) ELSE Dec(x, flags, Width(W))
<1>1. x \in Int /\ Width(W) \in Widths BY DecodeType, ReadEAType, WidthType
<1>2. flags.c \in BOOLEAN BY TypeFacts DEF AreBooleans
<1>3. res \in Outcomes(Width(W)) BY <1>1, <1>2, IncType
<1>4. /\ WriteEA(W, res.val) /\ SetZSOC(res)
      /\ val16' = IF W = 1 THEN res.val ELSE val16
      /\ Advance(2 + DispLen) /\ Pass /\ Operand(W)
      BY DEF IncDecEA
<1> HIDE DEF res
<1>5. Placed BY <1>4, Lengths, AdvanceType DEF Operand
<1> QED BY <1>3, <1>4, <1>5, WrittenType

LEMMA TestedType ==
  ASSUME TypeOK, Pass, NEW m \in Widths, NEW res \in Outcomes(m), NEW wide,
         Tested(res, wide), Placed
  PROVE  Typed
<1>1. res.val \in Word BY OutcomeValue
<1>2. flags' \in Flags BY SetZSOCType DEF Tested
<1>3. reg' \in Registers /\ IsMemory(data') BY TypeFacts DEF Tested
<1>4. val16' \in Word
  <2>1. val16 \in Word BY TypeFacts
  <2> QED BY <1>1, <2>1 DEF Tested
<1> QED BY <1>2, <1>3, <1>4, PassType

LEMMA TestRegType == ASSUME TypeOK, TestReg PROVE Typed
<1>1. ReadEA(W) \in Int /\ ReadRegister(W, Reg) \in Int
      BY DecodeType, ReadEAType, ReadRegisterType, WordIsInt
<1>2. Width(W) \in Widths BY DecodeType, WidthType
<1>3. LogicAnd(ReadEA(W), ReadRegister(W, Reg), Width(W)) \in Outcomes(Width(W))
      BY <1>1, <1>2, LogicType
<1>4. Placed BY Lengths, AdvanceType DEF TestReg, Operand
<1> QED BY <1>2, <1>3, <1>4, TestedType DEF TestReg

LEMMA TestAccType == ASSUME TypeOK, TestAcc PROVE Typed
<1> DEFINE m == Width(1 - W)
           x == reg[AX] % m
           y == Immediate(W, 1) % m
<1>1. m \in Widths
  <2>1. 1 - W \in {0, 1} BY DecodeType
  <2> QED BY <2>1, WidthType
<1>2. /\ Tested(LogicAnd(x, y, m), W = 0) /\ Advance(2 + W) /\ Pass /\ Ready
      BY DEF TestAcc
<1> HIDE DEF m
<1>3. x \in Int /\ y \in Int
  <2>1. reg[AX] \in Int /\ Immediate(W, 1) \in Int
        BY DecodeType, NamedRegisters, RegisterIsWord, ImmediateType
  <2> QED BY <1>1, <2>1 DEF Widths
<1> HIDE DEF x, y
<1>4. LogicAnd(x, y, m) \in Outcomes(m) BY <1>1, <1>3, LogicType
<1>5. Placed BY <1>2, Lengths, AdvanceType
<1> QED BY <1>1, <1>2, <1>4, <1>5, TestedType

LEMMA TestImmType == ASSUME TypeOK, TestImm PROVE Typed
<1>1. ReadEA(W) \in Int /\ Immediate(W, ImmAt) \in Int
      BY DecodeType, ReadEAType, ImmediateType
<1>2. Width(W) \in Widths BY DecodeType, WidthType
<1>3. LogicAnd(ReadEA(W), Immediate(W, ImmAt), Width(W)) \in Outcomes(Width(W))
      BY <1>1, <1>2, LogicType
<1>4. Placed BY Lengths, AdvanceType DEF TestImm, Operand
<1> QED BY <1>2, <1>3, <1>4, TestedType DEF TestImm

LEMMA NotType == ASSUME TypeOK, Not PROVE Typed
<1>1. Width(W) \in Widths /\ W \in {0, 1} /\ ReadEA(W) \in Int
      BY DecodeType, WidthType, ReadEAType
<1>2. Complement(ReadEA(W), Width(W)) \in Int BY <1>1 DEF Complement, Widths
<1>3. reg' \in Registers /\ IsMemory(data') BY <1>1, <1>2, WriteEAType DEF Not
<1>4. Placed BY Lengths, AdvanceType DEF Not, Operand
<1> QED BY <1>3, <1>4, PassKeepingFlagsType DEF Not

LEMMA NegateType == ASSUME TypeOK, Negate PROVE Typed
<1> DEFINE res == Neg(ReadEA(W), Width(W))
<1>1. Width(W) \in Widths /\ ReadEA(W) \in Int BY DecodeType, WidthType, ReadEAType
<1>2. res \in Outcomes(Width(W)) BY <1>1, NegType
<1>3. /\ WriteEA(W, res.val) /\ SetZSOC(res)
      /\ val16' = IF W = 1 THEN res.val ELSE val16
      /\ Advance(2 + DispLen) /\ Pass /\ Operand(W)
      BY DEF Negate
<1> HIDE DEF res
<1>4. Placed BY <1>3, Lengths, AdvanceType DEF Operand
<1> QED BY <1>2, <1>3, <1>4, WrittenType

LEMMA MultiplyType == ASSUME TypeOK, Multiply PROVE Typed
<1> DEFINE x == ReadRegister(W, AX)
           y == ReadEA(W)
           high == IF W = 1 THEN HighProduct(x, y) ELSE HighByte(x * y)
<1>1. x \in Word /\ y \in Word /\ x \in Int /\ y \in Int /\ W \in {0, 1}
      BY DecodeType, NamedRegisters, ReadRegisterType, ReadEAType, WordIsInt
<1>2. /\ reg' = IF W = 1 THEN WithWord(WithWord(reg, DX, high), AX, LowProduct(x, y))
                ELSE WithRegister(reg, 0, AX, x * y)
      /\ flags' = [flags EXCEPT !.o = high # 0, !.c = high # 0]
      /\ Advance(2 + DispLen) /\ Pass /\ UNCHANGED <<data, val16>> /\ Ready
      BY DEF Multiply, Operand
<1> HIDE DEF x, y
<1>3. x * y \in Int BY <1>1
<1>4. LowProduct(x, y) \in Int /\ HighProduct(x, y) \in Int
      BY <1>1, ProductsAreWords, WordIsInt
<1>5. reg \in Registers /\ AX \in 0 .. 7 /\ DX \in 0 .. 7 BY TypeFacts, NamedRegisters
<1>6. reg' \in Registers
  <2>1. CASE W = 1
    <3>1. high \in Int BY <1>4, <2>1
    <3>2. WithWord(reg, DX, high) \in Registers BY <1>5, <3>1, WithWordType
    <3> HIDE DEF high
    <3>3. WithWord(WithWord(reg, DX, high), AX, LowProduct(x, y)) \in Registers
          BY <1>4, <1>5, <3>2, WithWordType
    <3> QED BY <1>2, <2>1, <3>3
  <2>2. CASE W # 1
    <3>1. WithRegister(reg, 0, AX, x * y) \in Registers BY <1>3, <1>5, WithRegisterType
    <3> QED BY <1>2, <2>2, <3>1
  <2> QED BY <2>1, <2>2
<1> HIDE DEF high
<1>7. flags' \in Flags
  <2>1. flags \in Flags BY TypeFacts
  <2>2. (high # 0) \in BOOLEAN OBVIOUS
  <2> QED BY <1>2, <2>1, <2>2 DEF Flags
<1>8. val16' \in Word /\ IsMemory(data') BY <1>2, TypeFacts
<1>9. Placed BY <1>2, Lengths, AdvanceType
<1> QED BY <1>2, <1>6, <1>7, <1>8, <1>9, PassType

LEMMA DivideType == ASSUME TypeOK, Divide PROVE Typed
<1> DEFINE n == ReadEA(W)
           q == Quotient(reg[DX], reg[AX], n)
           r == Remainder(reg[DX], reg[AX], n)
           b == Pair((reg[AX] \div n) % 256, reg[AX] % n)
<1>1. /\ reg' = IF W = 1 THEN WithWord(WithWord(reg, AX, q), DX, r) ELSE WithWord(reg, AX, b)
      /\ n # 0 /\ Advance(2 + DispLen) /\ PassKeepingFlags /\ data' = data /\ Ready
      BY DEF Divide, Dividing, HostFault, Operand
<1>2. n \in Word /\ n \in Int /\ reg \in Registers /\ AX \in 0 .. 7 /\ DX \in 0 .. 7
      BY TypeFacts, DecodeType, NamedRegisters, ReadEAType
<1>3. reg[AX] \in Word /\ reg[DX] \in Word /\ reg[AX] \in Int BY <1>2, RegisterIsWord
<1> HIDE DEF n
<1>4. q \in Int /\ r \in Int BY <1>1, <1>2, <1>3, QuotientIsWord, WordIsInt
<1>5. b \in Int
  <2>1. n > 0 BY <1>1, <1>2, InWord
  <2>2. reg[AX] \div n \in Int /\ reg[AX] % n \in Int BY <1>2, <1>3, <2>1
  <2> QED BY <2>2 DEF Pair
<1> HIDE DEF q, r, b
<1>6. WithWord(reg, AX, q) \in Registers /\ WithWord(reg, AX, b) \in Registers
      BY <1>2, <1>4, <1>5, WithWordType
<1>7. WithWord(WithWord(reg, AX, q), DX, r) \in Registers
      BY <1>2, <1>4, <1>6, WithWordType
<1>8. reg' \in Registers BY <1>1, <1>6, <1>7
<1>9. Placed BY <1>1, Lengths, AdvanceType
<1>10. IsMemory(data') BY <1>1, TypeFacts
<1> QED BY <1>1, <1>8, <1>9, <1>10, PassKeepingFlagsType

LEMMA SignExtendIsNotZero == \A n \in Byte : n # 0 => SignExtend(n) # 0
BY InByte DEF SignExtend, Signed

LEMMA SignedDivideType == ASSUME TypeOK, SignedDivide PROVE Typed
<1> DEFINE n == ReadEA(W)
           wide == IF TopBit(reg[AX], 65536) THEN 65535 ELSE 0
           den == IF W = 1 THEN n ELSE SignExtend(n)
           hi == IF W = 1 THEN reg[DX] ELSE wide
           q == SignedQuotient(hi, reg[AX], den)
           r == SignedRemainder(hi, reg[AX], den)
           b == Pair(LowByte(q), LowByte(r))
<1>1. /\ reg' = IF W = 1 THEN WithWord(WithWord(reg, AX, q), DX, r) ELSE WithWord(reg, AX, b)
      /\ n # 0 /\ Advance(2 + DispLen) /\ PassKeepingFlags /\ data' = data /\ Ready
      BY DEF SignedDivide, Dividing, HostFault, Operand
<1>2. n \in Word /\ (W = 0 => n \in Byte) /\ W \in {0, 1} BY DecodeType, ReadEAType
<1>3. reg \in Registers /\ AX \in 0 .. 7 /\ DX \in 0 .. 7 BY TypeFacts, NamedRegisters
<1>4. reg[AX] \in Word /\ reg[DX] \in Word BY <1>3, RegisterIsWord
<1>5. wide \in Word BY InWord
<1> HIDE DEF n, wide
<1>6. den \in Word /\ den # 0
  <2>1. CASE W = 1 BY <1>1, <1>2, <2>1
  <2>2. CASE W = 0
    <3>1. n \in Byte /\ n \in Int BY <1>2, <2>2, ByteIsWord, WordIsInt
    <3>2. SignExtend(n) \in Word /\ SignExtend(n) # 0
          BY <1>1, <3>1, SignExtendIsWord, SignExtendIsNotZero
    <3> QED BY <2>2, <3>2
  <2> QED BY <1>2, <2>1, <2>2
<1>7. hi \in Word BY <1>4, <1>5
<1> HIDE DEF den, hi
<1>8. q \in Int /\ r \in Int BY <1>4, <1>6, <1>7, SignedQuotientIsWord, WordIsInt
<1> HIDE DEF q, r
<1>9. b \in Int BY <1>8 DEF Pair, LowByte
<1> HIDE DEF b
<1>10. WithWord(reg, AX, q) \in Registers /\ WithWord(reg, AX, b) \in Registers
      BY <1>3, <1>8, <1>9, WithWordType
<1>11. WithWord(WithWord(reg, AX, q), DX, r) \in Registers
      BY <1>3, <1>8, <1>10, WithWordType
<1>12. reg' \in Registers BY <1>1, <1>10, <1>11
<1>13. Placed BY <1>1, Lengths, AdvanceType
<1>14. IsMemory(data') BY <1>1, TypeFacts
<1> QED BY <1>1, <1>12, <1>13, <1>14, PassKeepingFlagsType

\* The actions that end the loop and leave the machine as it is.
LEMMA EndedType ==
  ASSUME TypeOK, status' \in Statuses,
         UNCHANGED <<reg, flags, text, data, pc, addr, option, stringop, val16>>
  PROVE  Typed
BY DEF TypeOK, Typed, AddrFollowsPc

LEMMA DivideCrashType == ASSUME TypeOK, DivideCrash PROVE Typed
BY EndedType DEF DivideCrash, Statuses

LEMMA ShiftedType ==
  ASSUME TypeOK, NEW x \in Int, NEW k
  PROVE  Shifted(x, k) \in Outcomes(Width(W))
<1>1. W \in {0, 1} /\ Width(W) \in Widths /\ AreBooleans(flags) /\ val16 \in Word
      BY TypeFacts, DecodeType, WidthType
<1>2. Count \in Nat
  <2>1. reg[CX] \in Int BY NamedRegisters, RegisterIsWord
  <2> QED BY <2>1 DEF Count, CL, LowByte
<1>3. ByCL \in BOOLEAN BY DEF ByCL
<1>4. W = 0 => Width(W) = 256 BY DEF Width
<1>5. Rcl(x, Count, ByCL, flags, Width(W)) \in Outcomes(Width(W)) BY <1>1, <1>2, <1>3, RclType
<1>6. RclByteByCL(x, Count, flags) \in Outcomes(256) BY <1>1, <1>2, <1>3, RclType
<1>7. Rcr(x, Count, ByCL, flags, Width(W)) \in Outcomes(Width(W)) BY <1>1, <1>2, <1>3, RcrType
<1>8. Shl(x, Count, k, ByCL, Width(W)) \in Outcomes(Width(W)) BY <1>1, <1>2, <1>3, ShlType
<1>9. ShrByteByCL(x, k, flags, val16) \in Outcomes(256) BY <1>1, ShrByteByCLType
<1>10. Shr(x, Count, k, ByCL, flags, Width(W)) \in Outcomes(Width(W))
      BY <1>1, <1>2, <1>3, ShrType
<1>11. Sar(x, Count, k, ByCL, flags, Width(W)) \in Outcomes(Width(W))
      BY <1>1, <1>2, <1>3, SarType
<1> QED BY <1>4, <1>5, <1>6, <1>7, <1>8, <1>9, <1>10, <1>11 DEF Shifted

LEMMA ShiftType == ASSUME TypeOK, Shift PROVE Typed
<1>1. Advance(2 + DispLen) /\ Pass /\ Operand(W) /\ Ready BY DEF Shift, Operand
<1>2. Placed BY <1>1, Lengths, AdvanceType
<1>3. ReadEA(W) \in Int BY DecodeType, ReadEAType
<1>4. CASE Shifts
  <2> DEFINE res == Shifted(ReadEA(W), CountAfter(Shifted(ReadEA(W), Count).val))
  <2>1. res \in Outcomes(Width(W)) BY <1>3, ShiftedType
  <2>2. /\ WriteEA(W, res.val) /\ SetZSOC(res)
        /\ val16' = IF W = 1 THEN res.val ELSE val16
        BY <1>4 DEF Shift
  <2> HIDE DEF res
  <2> QED BY <1>1, <1>2, <2>1, <2>2, WrittenType
<1>5. CASE ~Shifts
  <2>1. UNCHANGED <<reg, data, flags, val16>> BY <1>5 DEF Shift
  <2> QED BY <1>1, <1>2, <2>1, TypeFacts, PassType
<1> QED BY <1>4, <1>5
-----------------------------------------------------------------------------
\* Transfer.
LEMMA MovRegType == ASSUME TypeOK, MovReg PROVE Typed
<1>1. W \in {0, 1} /\ Reg \in 0 .. 7 /\ reg \in Registers /\ IsMemory(data)
      BY TypeFacts, DecodeType
<1>2. ReadEA(W) \in Int /\ ReadRegister(W, Reg) \in Int
      BY <1>1, ReadEAType, ReadRegisterType, WordIsInt
<1>3. /\ IF D = 1 THEN reg' = WithRegister(reg, W, Reg, ReadEA(W)) /\ UNCHANGED data
         ELSE WriteEA(W, ReadRegister(W, Reg))
      /\ Operand(W) /\ Ready /\ Advance(2 + DispLen) /\ PassKeepingFlags
      BY DEF MovReg, Operand
<1>4. WithRegister(reg, W, Reg, ReadEA(W)) \in Registers BY <1>1, <1>2, WithRegisterType
<1>5. reg' \in Registers /\ IsMemory(data')
  <2>1. CASE D = 1 BY <1>1, <1>3, <1>4, <2>1
  <2>2. CASE D # 1 BY <1>1, <1>2, <1>3, <2>2, WriteEAType
  <2> QED BY <2>1, <2>2
<1>6. Placed BY <1>3, Lengths, AdvanceType
<1> QED BY <1>3, <1>5, <1>6, PassKeepingFlagsType

LEMMA MovAccType == ASSUME TypeOK, MovAcc PROVE Typed
<1>1. W \in {0, 1} /\ AX \in 0 .. 7 /\ reg \in Registers /\ IsMemory(data)
      BY TypeFacts, DecodeType, NamedRegisters
<1>2. ReadData(W, FetchedWord(1)) \in Int /\ ReadRegister(W, AX) \in Int
      BY <1>1, ReadDataType, ReadRegisterType, WordIsInt
<1>3. /\ IF D = 0 THEN reg' = WithRegister(reg, W, AX, ReadData(W, FetchedWord(1)))
                       /\ UNCHANGED data
         ELSE data' = WriteData(W, FetchedWord(1), ReadRegister(W, AX)) /\ UNCHANGED reg
      /\ ~Beyond(W, FetchedWord(1)) /\ Ready /\ Advance(3) /\ PassKeepingFlags
      BY DEF MovAcc
<1>4. WithRegister(reg, W, AX, ReadData(W, FetchedWord(1))) \in Registers
      BY <1>1, <1>2, WithRegisterType
<1>5. IsMemory(WriteData(W, FetchedWord(1), ReadRegister(W, AX)))
      BY <1>1, <1>2, <1>3, FetchedType, WriteDataType
<1>6. reg' \in Registers /\ IsMemory(data') BY <1>1, <1>3, <1>4, <1>5
<1>7. Placed BY <1>3, AdvanceType
<1> QED BY <1>3, <1>6, <1>7, PassKeepingFlagsType

LEMMA MovImmRegType == ASSUME TypeOK, MovImmReg PROVE Typed
<1> DEFINE w == (Op \div 8) % 2
<1>1. w \in {0, 1} /\ Op % 8 \in 0 .. 7 /\ reg \in Registers BY TypeFacts, DecodeType
<1>2. /\ reg' = WithRegister(reg, w, Op % 8, Immediate(w, 1)) /\ Advance(2 + w)
      /\ Ready /\ PassKeepingFlags /\ data' = data
      BY DEF MovImmReg
<1> HIDE DEF w
<1>3. Immediate(w, 1) \in Int BY <1>1, ImmediateType
<1>4. reg' \in Registers BY <1>1, <1>2, <1>3, WithRegisterType
<1>5. 2 + w \in 0 .. 8 BY <1>1
<1>6. Placed BY <1>2, <1>5, AdvanceType
<1>7. IsMemory(data') BY <1>2, TypeFacts
<1> QED BY <1>2, <1>4, <1>6, <1>7, PassKeepingFlagsType

LEMMA MovImmEAType == ASSUME TypeOK, MovImmEA PROVE Typed
<1>1. Immediate(W, ImmAt) \in Int /\ W \in {0, 1} BY DecodeType, ImmediateType
<1>2. reg' \in Registers /\ IsMemory(data') BY <1>1, WriteEAType DEF MovImmEA
<1>3. Placed BY Lengths, AdvanceType DEF MovImmEA, Operand
<1> QED BY <1>2, <1>3, PassKeepingFlagsType DEF MovImmEA

LEMMA LeaType == ASSUME TypeOK, Lea PROVE Typed
<1>1. reg \in Registers /\ Reg \in 0 .. 7 BY TypeFacts, DecodeType
<1>2. Address \in Int BY <1>1, AddressType, WordIsInt DEF Address
<1>3. (IF Mod = 3 THEN 0 ELSE Address) \in Int BY <1>2
<1>4. reg' \in Registers BY <1>1, <1>3, WithWordType DEF Lea
<1>5. Placed BY Lengths, AdvanceType DEF Lea, Operand
<1>6. PassKeepingFlags /\ IsMemory(data') BY TypeFacts DEF Lea
<1> QED BY <1>4, <1>5, <1>6, PassKeepingFlagsType

LEMMA XchgEAType == ASSUME TypeOK, XchgEA PROVE Typed
<1> DEFINE r == WithRegister(reg, W, Reg, ReadEA(W))
           old == ReadRegister(W, Reg)
<1>1. /\ Mod # 3 => ~Beyond(W, AddressUnder(r))
      /\ reg' = IF Mod = 3 THEN WithRegister(r, W, Rom, old) ELSE r
      /\ data' = IF Mod = 3 THEN data ELSE WriteData(W, AddressUnder(r), old)
      /\ Advance(2 + DispLen) /\ PassKeepingFlags /\ Ready
      BY DEF XchgEA, Operand
<1>2. W \in {0, 1} /\ Reg \in 0 .. 7 /\ Rom \in 0 .. 7 /\ reg \in Registers /\ IsMemory(data)
      BY TypeFacts, DecodeType
<1>3. ReadEA(W) \in Int /\ old \in Int BY <1>2, ReadEAType, ReadRegisterType, WordIsInt
<1>4. r \in Registers BY <1>2, <1>3, WithRegisterType
<1> HIDE DEF r, old
<1>5. WithRegister(r, W, Rom, old) \in Registers BY <1>2, <1>3, <1>4, WithRegisterType
<1>6. Mod # 3 => IsMemory(WriteData(W, AddressUnder(r), old))
      BY <1>1, <1>2, <1>3, <1>4, AddressType, WriteDataType
<1>7. reg' \in Registers /\ IsMemory(data') BY <1>1, <1>2, <1>4, <1>5, <1>6
<1>8. Placed BY <1>1, Lengths, AdvanceType
<1> QED BY <1>1, <1>7, <1>8, PassKeepingFlagsType

LEMMA XchgAccType == ASSUME TypeOK, XchgAcc PROVE Typed
<1>1. Op % 8 \in 0 .. 7 /\ AX \in 0 .. 7 /\ reg \in Registers
      BY TypeFacts, DecodeType, NamedRegisters
<1>2. reg[Op % 8] \in Int /\ reg[AX] \in Int BY <1>1, RegisterIsWord
<1>3. WithWord(reg, AX, reg[Op % 8]) \in Registers BY <1>1, <1>2, WithWordType
<1>4. WithWord(WithWord(reg, AX, reg[Op % 8]), Op % 8, reg[AX]) \in Registers
      BY <1>1, <1>2, <1>3, WithWordType
<1>5. reg' \in Registers BY <1>4 DEF XchgAcc
<1>6. Placed BY AdvanceType DEF XchgAcc
<1>7. PassKeepingFlags /\ IsMemory(data') BY TypeFacts DEF XchgAcc
<1> QED BY <1>5, <1>6, <1>7, PassKeepingFlagsType

LEMMA ConvertType == ASSUME TypeOK, Convert PROVE Typed
<1> DEFINE sign == IF TopBit(reg[AX], 65536) THEN 65535 ELSE 0
<1>1. reg \in Registers /\ AX \in 0 .. 7 /\ DX \in 0 .. 7 /\ reg[AX] \in Int
      BY TypeFacts, NamedRegisters, RegisterIsWord
<1>2. SignExtend(LowByte(reg[AX])) \in Int
  <2>1. LowByte(reg[AX]) \in Int BY <1>1 DEF LowByte
  <2> QED BY <2>1, SignExtendIsWord, WordIsInt
<1>3. sign \in Int OBVIOUS
<1>4. reg' = IF Op = \h98 THEN WithWord(reg, AX, SignExtend(LowByte(reg[AX])))
             ELSE WithWord(reg, DX, sign)
      BY DEF Convert
<1> HIDE DEF sign
<1>5. /\ WithWord(reg, AX, SignExtend(LowByte(reg[AX]))) \in Registers
      /\ WithWord(reg, DX, sign) \in Registers
      BY <1>1, <1>2, <1>3, WithWordType
<1>6. reg' \in Registers BY <1>4, <1>5
<1>7. Placed BY AdvanceType DEF Convert
<1>8. PassKeepingFlags /\ IsMemory(data') BY TypeFacts DEF Convert
<1> QED BY <1>6, <1>7, <1>8, PassKeepingFlagsType

LEMMA DirectionType == ASSUME TypeOK, Direction PROVE Typed
<1>1. flags \in Flags BY TypeFacts
<1>2. flags' \in Flags BY <1>1 DEF Direction, Flags
<1>3. Placed BY AdvanceType DEF Direction
<1>4. Pass /\ reg' \in Registers /\ IsMemory(data') /\ val16' \in Word
      BY TypeFacts DEF Direction
<1> QED BY <1>2, <1>3, <1>4, PassType

LEMMA PushRegType == ASSUME TypeOK, PushReg PROVE Typed
<1>1. Op % 8 \in 0 .. 7 BY DecodeType
<1>2. reg[Op % 8] \in Int BY <1>1, RegisterIsWord
<1>3. reg' \in Registers /\ IsMemory(data') BY <1>2, PushingType DEF PushReg
<1>4. Placed BY AdvanceType DEF PushReg
<1> QED BY <1>3, <1>4, PassKeepingFlagsType DEF PushReg

LEMMA PushEAType == ASSUME TypeOK, PushEA PROVE Typed
<1>1. ReadEA(W) \in Int BY DecodeType, ReadEAType
<1>2. reg' \in Registers /\ IsMemory(data') BY <1>1, PushingType DEF PushEA
<1>3. Placed BY Lengths, AdvanceType DEF PushEA, Operand
<1> QED BY <1>2, <1>3, PassKeepingFlagsType DEF PushEA

LEMMA PopRegType == ASSUME TypeOK, PopReg PROVE Typed
<1>1. Op % 8 \in 0 .. 7 /\ StackTop \in Int /\ Popped \in Registers
      BY DecodeType, StackTopType, PoppedType
<1>2. reg' \in Registers BY <1>1, WithWordType DEF PopReg
<1>3. Placed BY AdvanceType DEF PopReg
<1>4. PassKeepingFlags /\ IsMemory(data') BY TypeFacts DEF PopReg
<1> QED BY <1>2, <1>3, <1>4, PassKeepingFlagsType

LEMMA PopEAType == ASSUME TypeOK, PopEA PROVE Typed
<1>1. Rom \in 0 .. 7 /\ StackTop \in Int /\ Popped \in Registers /\ IsMemory(data)
      BY TypeFacts, DecodeType, StackTopType, PoppedType
<1>2. WithWord(Popped, Rom, StackTop) \in Registers BY <1>1, WithWordType
<1>3. Mod # 3 => IsMemory(WriteData(1, Address, StackTop))
  <2>1. Address \in Word BY TypeFacts, AddressType DEF Address
  <2>2. Mod # 3 => ~Beyond(1, Address) BY DEF PopEA, Operand
  <2> QED BY <1>1, <2>1, <2>2, WriteDataType
<1>4. reg' \in Registers /\ IsMemory(data') BY <1>1, <1>2, <1>3 DEF PopEA
<1>5. Placed BY Lengths, AdvanceType DEF PopEA, Operand
<1> QED BY <1>4, <1>5, PassKeepingFlagsType DEF PopEA
-----------------------------------------------------------------------------
\* Control.
LEMMA JumpIfType == ASSUME TypeOK, JumpIf PROVE Typed
<1>1. Placed BY GoIfType DEF JumpIf
<1>2. PassKeepingFlags /\ reg' \in Registers /\ IsMemory(data') BY TypeFacts DEF JumpIf
<1> QED BY <1>1, <1>2, PassKeepingFlagsType

LEMMA LoopType == ASSUME TypeOK, Loop PROVE Typed
<1>1. reg \in Registers /\ CX \in 0 .. 7 /\ reg[CX] \in Int
      BY TypeFacts, NamedRegisters, RegisterIsWord
<1>2. reg[CX] - 1 \in Int BY <1>1
<1>3. reg' \in Registers BY <1>1, <1>2, WithWordType DEF Loop
<1>4. Placed BY GoIfType DEF Loop
<1>5. PassKeepingFlags /\ IsMemory(data') BY TypeFacts DEF Loop
<1> QED BY <1>3, <1>4, <1>5, PassKeepingFlagsType

LEMMA JumpIfCXZeroType == ASSUME TypeOK, JumpIfCXZero PROVE Typed
<1>1. Placed BY GoIfType DEF JumpIfCXZero
<1>2. PassKeepingFlags /\ reg' \in Registers /\ IsMemory(data')
      BY TypeFacts DEF JumpIfCXZero
<1> QED BY <1>1, <1>2, PassKeepingFlagsType

LEMMA JumpType == ASSUME TypeOK, Jump PROVE Typed
<1>1. (IF Op = \he9 THEN Near ELSE Short(2)) \in Int BY RelativeType
<1>2. Placed BY <1>1, JumpToType DEF Jump
<1>3. PassKeepingFlags /\ reg' \in Registers /\ IsMemory(data') BY TypeFacts DEF Jump
<1> QED BY <1>2, <1>3, PassKeepingFlagsType

LEMMA JumpEAType == ASSUME TypeOK, JumpEA PROVE Typed
<1>1. ReadEA(W) \in Int BY DecodeType, ReadEAType
<1>2. Placed BY <1>1, JumpToType DEF JumpEA
<1>3. PassKeepingFlags /\ reg' \in Registers /\ IsMemory(data') BY TypeFacts DEF JumpEA
<1> QED BY <1>2, <1>3, PassKeepingFlagsType

LEMMA ReturnToType == \A n \in Nat : TypeOK => ReturnTo(n) \in Int
BY TypeFacts DEF ReturnTo

LEMMA CallType == ASSUME TypeOK, Call PROVE Typed
<1>1. ReturnTo(3) \in Int BY ReturnToType
<1>2. reg' \in Registers /\ IsMemory(data') BY <1>1, PushingType DEF Call
<1>3. Near \in Int BY RelativeType
<1>4. Placed BY <1>3, JumpToType DEF Call
<1> QED BY <1>2, <1>4, PassKeepingFlagsType DEF Call

LEMMA CallEAType == ASSUME TypeOK, CallEA PROVE Typed
<1>1. 2 + DispLen \in Nat BY DecodeType
<1>2. ReturnTo(2 + DispLen) \in Int BY <1>1, ReturnToType
<1>3. reg' \in Registers /\ IsMemory(data') BY <1>2, PushingType DEF CallEA
<1>4. ReadEA(W) \in Int BY DecodeType, ReadEAType
<1>5. Placed BY <1>4, JumpToType DEF CallEA
<1> QED BY <1>3, <1>5, PassKeepingFlagsType DEF CallEA

LEMMA RetType == ASSUME TypeOK, Ret PROVE Typed
<1> DEFINE sp == reg[SP] + 2 + (IF Op = \hc2 THEN Fetched(1) ELSE 0)
<1>1. reg \in Registers /\ SP \in 0 .. 7 /\ reg[SP] \in Int /\ Fetched(1) \in Int
      BY TypeFacts, NamedRegisters, RegisterIsWord, FetchedType
<1>2. sp \in Int BY <1>1
<1>3. reg' = WithWord(reg, SP, sp) BY DEF Ret
<1> HIDE DEF sp
<1>4. reg' \in Registers BY <1>1, <1>2, <1>3, WithWordType
<1>5. Placed BY StackTopType, JumpToType DEF Ret
<1>6. PassKeepingFlags /\ IsMemory(data') BY TypeFacts DEF Ret
<1> QED BY <1>4, <1>5, <1>6, PassKeepingFlagsType
-----------------------------------------------------------------------------
\* String instructions.  These actions set option themselves.
LEMMA RepeatType == ASSUME TypeOK, Repeat PROVE Typed
<1>1. Op % 2 \in {0, 1} BY DecodeType
<1>2. option' \in [active : BOOLEAN, z : {0, 1}] BY <1>1 DEF Repeat
<1>3. Placed BY AdvanceType DEF Repeat
<1>4. UNCHANGED <<reg, flags, text, data, stringop, val16, status>> BY DEF Repeat
<1> QED BY <1>2, <1>3, <1>4 DEF TypeOK, Typed, Placed

LEMMA StringStartType == ASSUME TypeOK, StringStart PROVE Typed
<1>1. option' \in [active : BOOLEAN, z : {0, 1}] /\ stringop' \in StringOps \cup {0}
  <2>1. CASE option.active /\ reg[CX] = 0
    <3>1. option' = NoOption /\ stringop' = stringop BY <2>1 DEF StringStart, Flush
    <3> QED BY <3>1, TypeFacts DEF NoOption
  <2>2. CASE ~(option.active /\ reg[CX] = 0)
    <3>1. option' = option /\ stringop' = Op /\ Op \in StringOps BY <2>2 DEF StringStart
    <3> QED BY <3>1, TypeFacts
  <2> QED BY <2>1, <2>2
<1>2. Placed BY AdvanceType DEF StringStart
<1>3. UNCHANGED <<reg, flags, text, data, val16, status>> BY DEF StringStart
<1> QED BY <1>1, <1>2, <1>3 DEF TypeOK, Typed, Placed

LEMMA MovedType == ASSUME TypeOK PROVE Moved \in Registers
<1>1. /\ reg \in Registers /\ SI \in 0 .. 7 /\ DI \in 0 .. 7
      /\ reg[SI] \in Int /\ reg[DI] \in Int
      BY TypeFacts, NamedRegisters, RegisterIsWord
<1>2. Delta \in Int BY DEF Delta, Size
<1>3. reg[SI] + Delta \in Int /\ reg[DI] + Delta \in Int BY <1>1, <1>2
<1>4. WithWord(reg, SI, reg[SI] + Delta) \in Registers BY <1>1, <1>3, WithWordType
<1>5. (IF UsesSI THEN WithWord(reg, SI, reg[SI] + Delta) ELSE reg) \in Registers
      BY <1>1, <1>4
<1> QED BY <1>1, <1>3, <1>5, WithWordType DEF Moved

LEMMA StringElementType == ASSUME TypeOK, StringElement PROVE Typed
<1>1. /\ reg[SI] \in Word /\ reg[DI] \in Word /\ reg[AX] \in Int /\ reg[CX] \in Int
      /\ CX \in 0 .. 7 /\ IsMemory(data)
      BY TypeFacts, NamedRegisters, RegisterIsWord
<1>2. LowByte(reg[AX]) \in Byte BY <1>1, HalvesAreBytes
<1>3. IsMemory(data')
  <2>1. IsMemory(Store(data, reg[DI], At(data, reg[SI]))) BY <1>1, AtByte, StoreMemory
  <2>2. IsMemory(Store(data, reg[DI], LowByte(reg[AX]))) BY <1>1, <1>2, StoreMemory
  <2>3. stringop = \ha5 => IsMemory(StoreWord(data, reg[DI], ReadData(1, reg[SI])))
    <3>1. ReadData(1, reg[SI]) \in Int BY ReadDataType, WordIsInt
    <3>2. stringop = \ha5 => reg[DI] # 65535 BY DEF StringElement
    <3> QED BY <1>1, <3>1, <3>2, StoreWordMemory
  <2>4. data' = CASE stringop = \ha4 -> Store(data, reg[DI], At(data, reg[SI]))
                  [] stringop = \ha5 -> StoreWord(data, reg[DI], ReadData(1, reg[SI]))
                  [] stringop = \haa -> Store(data, reg[DI], LowByte(reg[AX]))
                  [] OTHER -> data
        BY DEF StringElement
  <2> QED BY <1>1, <2>1, <2>2, <2>3, <2>4
<1>4. flags' \in Flags
  <2>1. CASE Compares
    <3> DEFINE x == IF stringop = \ha6 THEN At(data, reg[SI]) ELSE LowByte(reg[AX])
    <3>1. At(data, reg[SI]) \in Byte /\ At(data, reg[DI]) \in Byte BY <1>1, AtByte
    <3>2. x \in Int /\ At(data, reg[DI]) \in Int BY <1>2, <3>1, ByteIsWord, WordIsInt
    <3>3. 256 \in Widths BY DEF Widths
    <3> HIDE DEF x
    <3>4. Sub(x, At(data, reg[DI]), 256) \in Outcomes(256) BY <3>2, <3>3, SubType
    <3>5. SetZSOC(Sub(x, At(data, reg[DI]), 256))
          BY <2>1 DEF StringElement, ElementCompared, x
    <3> QED BY <3>3, <3>4, <3>5, SetZSOCType
  <2>2. CASE ~Compares BY <2>2, TypeFacts DEF StringElement
  <2> QED BY <2>1, <2>2
<1>5. reg' \in Registers
  <2>1. Moved \in Registers BY MovedType
  <2>2. reg[CX] - 1 \in Int BY <1>1
  <2>3. WithWord(Moved, CX, reg[CX] - 1) \in Registers BY <1>1, <2>1, <2>2, WithWordType
  <2> QED BY <2>1, <2>3 DEF StringElement, Counted
<1>6. option' \in [active : BOOLEAN, z : {0, 1}] /\ stringop' \in StringOps \cup {0}
  <2>1. CASE LoopsAgain(flags'.z)
    <3>1. option' = option /\ stringop' = stringop BY <2>1 DEF StringElement
    <3> QED BY <3>1, TypeFacts
  <2>2. CASE ~LoopsAgain(flags'.z)
    <3>1. option' = NoOption /\ stringop' = 0 BY <2>2 DEF StringElement, Flush
    <3> QED BY <3>1 DEF NoOption
  <2> QED BY <2>1, <2>2
<1>7. UNCHANGED <<text, pc, addr, val16, status>> BY DEF StringElement
<1>8. Placed BY <1>7, StayingType
<1> QED BY <1>3, <1>4, <1>5, <1>6, <1>7, <1>8 DEF TypeOK, Typed, Placed, Registers
-----------------------------------------------------------------------------
\* System calls: what the operating system stores and replies is only assumed typed.
LEMMA InterruptingType ==
  ASSUME TypeOK, Interrupting
  PROVE  /\ option' \in [active : BOOLEAN, z : {0, 1}]
         /\ reg[BX] + 2 \in Word /\ reg[BX] + 2 # 65535
         /\ Ready
<1>1. reg[BX] \in Word BY NamedRegisters, RegisterIsWord
<1>2. reg[BX] + 3 <= 65535 /\ Ready BY DEF Interrupting
<1>3. reg[BX] + 2 \in Word /\ reg[BX] + 2 # 65535 BY <1>1, <1>2, InWord
<1>4. option' = NoOption \/ option' = option BY DEF Interrupting
<1>5. option' \in [active : BOOLEAN, z : {0, 1}]
  <2>1. option \in [active : BOOLEAN, z : {0, 1}] BY TypeFacts
  <2>2. NoOption \in [active : BOOLEAN, z : {0, 1}] BY DEF NoOption
  <2> QED BY <1>4, <2>1, <2>2
<1> QED BY <1>2, <1>3, <1>5

LEMMA SystemCallType == ASSUME TypeOK, SystemCall PROVE Typed
<1>1. PICK stored \in OsStores, reply \in OsReplies, ax \in {0, reg[AX]} :
        /\ data' = StoreWord(StoreAll(data, stored), reg[BX] + 2, reply)
        /\ reg' = WithWord(reg, AX, ax)
      BY DEF SystemCall
<1>2. /\ option' \in [active : BOOLEAN, z : {0, 1}]
      /\ reg[BX] + 2 \in Word /\ reg[BX] + 2 # 65535 /\ Ready
      BY InterruptingType DEF SystemCall
<1>3. IsMemory(data')
  <2>1. IsMemory(stored) BY OsAssumption
  <2>2. IsMemory(StoreAll(data, stored)) BY <2>1, TypeFacts, StoreAllMemory
  <2>3. reply \in Int BY OsAssumption, WordIsInt
  <2> QED BY <1>1, <1>2, <2>2, <2>3, StoreWordMemory
<1>4. reg' \in Registers
  <2>1. reg \in Registers /\ AX \in 0 .. 7 /\ reg[AX] \in Int
        BY TypeFacts, NamedRegisters, RegisterIsWord
  <2>2. ax \in Int BY <2>1
  <2> QED BY <1>1, <2>1, <2>2, WithWordType
<1>5. Placed BY <1>2, AdvanceType DEF SystemCall
<1>6. UNCHANGED <<flags, text, stringop, val16, status>> BY DEF SystemCall
<1> QED BY <1>2, <1>3, <1>4, <1>5, <1>6 DEF TypeOK, Typed, Placed, Registers

LEMMA ExecCallType == ASSUME TypeOK, ExecCall PROVE Typed
<1>1. PICK l \in Loads :
        /\ text' = l.text
        /\ data' = StoreWord(l.data, reg[BX] + 2, 0)
        /\ reg' = WithWord(reg, SP, l.sp)
      BY DEF ExecCall
<1>2. /\ option' \in [active : BOOLEAN, z : {0, 1}]
      /\ reg[BX] + 2 \in Word /\ reg[BX] + 2 # 65535
      BY InterruptingType DEF ExecCall
<1>3. IsMemory(l.text) /\ IsMemory(l.data) /\ l.sp \in Int BY LoadsAssumption, WordIsInt
<1>4. IsMemory(text') /\ IsMemory(data') BY <1>1, <1>2, <1>3, StoreWordMemory
<1>5. reg' \in Registers
  <2>1. reg \in Registers /\ SP \in 0 .. 7 BY TypeFacts, NamedRegisters
  <2> QED BY <1>1, <1>3, <2>1, WithWordType
<1>6. Placed
  <2>1. pc' = 0 /\ addr' = 0 BY DEF ExecCall
  <2> QED BY <2>1, InValues, InWord DEF Placed, AddrFollowsPc
<1>7. UNCHANGED <<flags, stringop, val16, status>> BY DEF ExecCall
<1> QED BY <1>2, <1>4, <1>5, <1>6, <1>7 DEF TypeOK, Typed, Placed, Registers

LEMMA LastCallType == ASSUME TypeOK, LastCall PROVE Typed
<1>1. option' \in [active : BOOLEAN, z : {0, 1}] /\ Ready
      BY InterruptingType DEF LastCall
<1>2. status' \in Statuses BY DEF LastCall, Statuses
<1>3. Placed BY <1>1, AdvanceType DEF LastCall
<1>4. UNCHANGED <<reg, flags, text, data, stringop, val16>> BY DEF LastCall
<1> QED BY <1>1, <1>2, <1>3, <1>4 DEF TypeOK, Typed, Placed

LEMMA RefuseType == ASSUME TypeOK, Refuse PROVE Typed
<1>1. reg' \in Registers BY TypeFacts, PoppedType DEF Refuse
<1>2. status' \in Statuses BY DEF Refuse, Statuses
<1>3. UNCHANGED <<flags, text, data, pc, addr, option, stringop, val16>> BY DEF Refuse
<1>4. Placed BY <1>3, StayingType
<1> QED BY <1>1, <1>2, <1>3, <1>4 DEF TypeOK, Typed, Placed, Registers

LEMMA OverrunType == ASSUME TypeOK, Overrun PROVE Typed
BY EndedType DEF Overrun, Statuses
-----------------------------------------------------------------------------
LEMMA StutterType == ASSUME TypeOK, UNCHANGED vars PROVE Typed
BY DEF TypeOK, Typed, AddrFollowsPc, vars

LEMMA InitType == Init => TypeOK /\ AddrFollowsPc
<1> SUFFICES ASSUME Init PROVE TypeOK /\ AddrFollowsPc OBVIOUS
<1>1. PICK l \in Loads :
        text = l.text /\ data = l.data /\ reg = [i \in 0 .. 7 |-> IF i = SP THEN l.sp ELSE 0]
      BY DEF Init
<1>2. 0 \in Word BY InWord
<1>3. IsMemory(text) /\ IsMemory(data) /\ l.sp \in Word BY <1>1, LoadsAssumption
<1>4. reg \in [0 .. 7 -> Word] BY <1>1, <1>2, <1>3
<1>5. flags \in Flags BY DEF Init, Flags
<1>6. pc \in Values(65544) /\ pc = 0 /\ addr = 0 BY InValues DEF Init
<1>7. /\ option \in [active : BOOLEAN, z : {0, 1}] /\ stringop \in StringOps \cup {0}
      /\ val16 \in Word /\ status \in Statuses
      BY LeftoversAssumption DEF Init, NoOption, Statuses
<1> QED BY <1>2, <1>3, <1>4, <1>5, <1>6, <1>7 DEF TypeOK, AddrFollowsPc

\* Every pass of the loop, every turn of a string loop and every ending keeps the
\* machine typed and addr beside pc.
LEMMA StepType == ASSUME TypeOK, [Next]_vars PROVE Typed
<1>1. CASE Arithmetic
      BY <1>1, AluRegType, AluAccType, AluImmType, IncDecRegType, IncDecEAType,
         TestRegType, TestAccType, TestImmType, NotType, NegateType, MultiplyType,
         DivideType, SignedDivideType, DivideCrashType, ShiftType
      DEF Arithmetic
<1>2. CASE Transfer
      BY <1>2, MovRegType, MovAccType, MovImmRegType, MovImmEAType, LeaType, XchgEAType,
         XchgAccType, ConvertType, DirectionType, PushRegType, PushEAType, PopRegType,
         PopEAType
      DEF Transfer
<1>3. CASE Control
      BY <1>3, JumpIfType, LoopType, JumpIfCXZeroType, JumpType, JumpEAType, CallType,
         CallEAType, RetType
      DEF Control
<1>4. CASE String BY <1>4, RepeatType, StringStartType, StringElementType DEF String
<1>5. CASE SystemCall \/ ExecCall \/ LastCall
      BY <1>5, SystemCallType, ExecCallType, LastCallType
<1>6. CASE Ending BY <1>6, RefuseType, OverrunType, StutterType DEF Ending, Stopped
<1>7. CASE UNCHANGED vars BY <1>7, StutterType
<1> QED BY <1>1, <1>2, <1>3, <1>4, <1>5, <1>6, <1>7 DEF Next

\* Whatever the program, its arguments and the operating system do, no register,
\* byte, flag or counter of the interpreter leaves the range of its C++ type.
THEOREM TypeCorrect == Spec => []TypeOK
<1>1. Init => TypeOK BY InitType
<1>2. TypeOK /\ [Next]_vars => TypeOK' BY StepType DEF Typed
<1> QED BY <1>1, <1>2, PTL DEF Spec

\* The two ways run() knows where it is, the pointer pc and the member addr, agree
\* through every advance, jump, call, return and exec, for every program.
THEOREM AddrFollows == Spec => []AddrFollowsPc
<1>1. Init => TypeOK /\ AddrFollowsPc BY InitType
<1>2. TypeOK /\ AddrFollowsPc /\ [Next]_vars => (TypeOK /\ AddrFollowsPc)'
      BY StepType DEF Typed
<1> QED BY <1>1, <1>2, PTL DEF Spec
-----------------------------------------------------------------------------
\* Where a pass may store.
StoresOnly(T) == \A a : At(data', a) # At(data, a) => a \in T

\* The part of StoresStayInOperand that a step must show.
Contained ==
  Op # \hcd \/ stringop # 0 =>
    \A a \in DOMAIN data' : At(data', a) # At(data, a) => a \in StoreTargets

LEMMA StoreKeeps ==
  ASSUME NEW m, NEW b, NEW v, NEW a, a # b
  PROVE  At(Store(m, b, v), a) = At(m, a)
BY DEF At, Store

LEMMA StoreTwoKeeps ==
  ASSUME NEW m, NEW b, NEW v, NEW c, NEW u, NEW a, a # b, a # c
  PROVE  At(Store(Store(m, b, v), c, u), a) = At(m, a)
<1> DEFINE n == Store(m, b, v)
<1>1. At(n, a) = At(m, a) BY StoreKeeps
<1> HIDE DEF n
<1>2. At(Store(n, c, u), a) = At(n, a) BY StoreKeeps
<1> QED BY <1>1, <1>2 DEF n

LEMMA WriteDataStores ==
  ASSUME NEW w \in {0, 1}, NEW b \in Word, ~Beyond(w, b), NEW v, data' = WriteData(w, b, v)
  PROVE  StoresOnly({b, (b + w) % 65536})
<1>1. b \in Int /\ 0 <= b /\ b < 65536 BY InWord
<1>2. CASE w = 1
  <2>1. b # 65535 BY <1>2 DEF Beyond
  <2>2. (b + w) % 65536 = b + 1 BY <1>1, <1>2, <2>1
  <2>3. data' = Store(Store(data, b, LowByte(v)), b + 1, HighByte(v))
        BY <1>2 DEF WriteData, StoreWord
  <2>4. \A a : a # b /\ a # b + 1 => At(data', a) = At(data, a) BY <2>3, StoreTwoKeeps
  <2> QED BY <2>2, <2>4 DEF StoresOnly
<1>3. CASE w = 0
  <2>1. data' = Store(data, b, LowByte(v)) BY <1>3 DEF WriteData
  <2>2. \A a : a # b => At(data', a) = At(data, a) BY <2>1, StoreKeeps
  <2> QED BY <2>2 DEF StoresOnly
<1> QED BY <1>2, <1>3

\* The two bytes below SP.
StackWord == {(reg[SP] - 1) % 65536, (reg[SP] - 2) % 65536}

LEMMA PushingStores ==
  ASSUME NEW v, Pushing(v)
  PROVE  StoresOnly(StackWord)
<1> DEFINE b == (reg[SP] - 1) % 65536
           c == (reg[SP] - 2) % 65536
<1>1. data' = Store(Store(data, b, HighByte(v)), c, LowByte(v)) BY DEF Pushing, Pushed
<1> HIDE DEF b, c
<1>2. \A a : a # b /\ a # c => At(data', a) = At(data, a) BY <1>1, StoreTwoKeeps
<1>3. StoresOnly({b, c}) BY <1>2 DEF StoresOnly
<1> QED BY <1>3 DEF b, c, StackWord
-----------------------------------------------------------------------------
LEMMA NothingStored == ASSUME data' = data PROVE Contained
BY DEF Contained

LEMMA StoredWithin == ASSUME StoresOnly(StoreTargets) PROVE Contained
BY DEF StoresOnly, Contained

\* The opcodes that store to their r/m operand.
Storing ==
  \/ Op < 64 /\ Op % 8 <= 3
  \/ Op \in {\h80, \h81, \h83, \h86, \h87, \h88, \h89, \h8a, \h8b, \h8f, \hc6, \hc7}
  \/ Op \in {\hd0, \hd1, \hd2, \hd3, \hf6, \hf7}
  \/ Op \in {\hfe, \hff} /\ Reg \notin {2, 6}

LEMMA StoringTargets ==
  ASSUME TypeOK, Ready, Storing, Mod # 3
  PROVE  StoreTargets = {StoreAddress, (StoreAddress + W) % 65536}
<1>1. Op \in Int /\ 0 <= Op /\ Op < 256 BY DecodeType, InByte
<1>2. Op \in ModRM
  <2> DEFINE F == UNION {{8 * k, 8 * k + 1, 8 * k + 2, 8 * k + 3} : k \in 0 .. 7}
             G == (\h80 .. \h8b) \ {\h82}
             H == {\h8d, \h8f, \hc6, \hc7, \hd0, \hd1, \hd2, \hd3}
             I == {\hf6, \hf7, \hfe, \hff}
  <2>1. Op \in F \/ Op \in G \/ Op \in H \/ Op \in I => Op \in ModRM
    <3>1. ModRM = F \cup G \cup H \cup I BY DEF ModRM
    <3> HIDE DEF F, G, H, I
    <3> QED BY <3>1
  <2>2. CASE Op < 64 /\ Op % 8 <= 3
    <3> DEFINE k == Op \div 8
               i == Op % 8
    <3>1. k \in 0 .. 7 /\ i \in 0 .. 7 /\ i <= 3 /\ Op = 8 * k + i BY <1>1, <2>2
    <3> HIDE DEF k, i
    <3>2. Op \in {8 * k, 8 * k + 1, 8 * k + 2, 8 * k + 3} BY <3>1
    <3>3. Op \in F BY <3>1, <3>2, Zenon
    <3> QED BY <2>1, <3>3
  <2>3. CASE Op \in {\h80, \h81, \h83, \h86, \h87, \h88, \h89, \h8a, \h8b, \h8f, \hc6, \hc7}
                    \cup {\hd0, \hd1, \hd2, \hd3, \hf6, \hf7, \hfe, \hff}
    <3>1. Op \in G \/ Op \in H \/ Op \in I BY <2>3
    <3> HIDE DEF F, G, H, I
    <3> QED BY <2>1, <3>1
  <2> QED BY <2>2, <2>3 DEF Storing
<1>3. Op \notin \ha2 .. \ha3 /\ Op \notin \h50 .. \h57 /\ Op # \he8
      BY <1>1 DEF Storing
<1>4. ~(Op \in {\hfe, \hff} /\ Reg \in {2, 6}) BY <1>1 DEF Storing
<1>5. stringop = 0 BY DEF Ready
<1> QED BY <1>2, <1>3, <1>4, <1>5 DEF StoreTargets

\* A pass that stores to its operand.
LEMMA StoredAtAddress ==
  ASSUME TypeOK, Ready, Storing, Mod # 3, NEW b \in Word, b = StoreAddress,
         ~Beyond(W, b), NEW v, data' = WriteData(W, b, v)
  PROVE  Contained
<1>1. W \in {0, 1} BY DecodeType
<1>2. StoresOnly({b, (b + W) % 65536}) BY <1>1, WriteDataStores
<1>3. StoreTargets = {b, (b + W) % 65536} BY StoringTargets
<1> QED BY <1>2, <1>3, StoredWithin

LEMMA WriteEAStores ==
  ASSUME TypeOK, Operand(W), Storing, Op \notin {\h86, \h87}, NEW v, WriteEA(W, v)
  PROVE  Contained
<1>1. Ready /\ (Mod # 3 => ~Beyond(W, Address)) BY DEF Operand
<1>2. CASE Mod = 3 BY <1>2, NothingStored DEF WriteEA
<1>3. CASE Mod # 3
  <2>1. reg' = reg /\ data' = WriteData(W, Address, v) BY <1>3 DEF WriteEA
  <2>2. Address \in Word BY TypeFacts, AddressType DEF Address
  <2>3. Address = StoreAddress BY DEF Address, StoreAddress
  <2> QED BY <1>1, <1>3, <2>1, <2>2, <2>3, StoredAtAddress
<1> QED BY <1>2, <1>3

LEMMA PushStores ==
  ASSUME TypeOK, Ready, NEW v, Pushing(v),
         Op \in \h50 .. \h57 \/ Op = \he8 \/ (Op \in {\hfe, \hff} /\ Reg \in {2, 6})
  PROVE  Contained
<1>1. Op \notin \ha2 .. \ha3 /\ stringop = 0 BY DEF Ready
<1>2. StoresOnly(StackWord) BY PushingStores
<1>3. StoreTargets = StackWord BY <1>1 DEF StoreTargets, StackWord
<1>4. StoresOnly(StoreTargets) BY <1>2, <1>3
<1> QED BY <1>4, StoredWithin

LEMMA XchgEAStores == ASSUME TypeOK, XchgEA PROVE Contained
<1> DEFINE r == WithRegister(reg, W, Reg, ReadEA(W))
           old == ReadRegister(W, Reg)
<1>1. Ready /\ Storing BY DEF XchgEA, Operand, Storing
<1>2. CASE Mod = 3
  <2>1. data' = data BY <1>2 DEF XchgEA
  <2> QED BY <2>1, NothingStored
<1>3. CASE Mod # 3
  <2>1. reg' = r /\ data' = WriteData(W, AddressUnder(r), old) /\ ~Beyond(W, AddressUnder(r))
        BY <1>3 DEF XchgEA
  <2>2. r \in Registers
    <3>1. W \in {0, 1} /\ Reg \in 0 .. 7 /\ reg \in Registers BY TypeFacts, DecodeType
    <3>2. ReadEA(W) \in Int BY <3>1, ReadEAType
    <3> QED BY <3>1, <3>2, WithRegisterType
  <2> HIDE DEF r, old
  <2>3. AddressUnder(r) \in Word BY <2>2, AddressType
  <2>4. AddressUnder(r) = StoreAddress BY <2>1 DEF XchgEA, StoreAddress
  <2> QED BY <1>1, <1>3, <2>1, <2>3, <2>4, StoredAtAddress
<1> QED BY <1>2, <1>3

LEMMA PopEAStores == ASSUME TypeOK, PopEA PROVE Contained
<1>1. Ready /\ Op = \h8f /\ Storing /\ (Mod # 3 => ~Beyond(1, Address))
      BY DEF PopEA, Operand, Storing
<1>2. W = 1 BY <1>1 DEF W
<1>3. CASE Mod = 3
  <2>1. data' = data BY <1>3 DEF PopEA
  <2> QED BY <2>1, NothingStored
<1>4. CASE Mod # 3
  <2>1. data' = WriteData(1, Address, StackTop) BY <1>4 DEF PopEA
  <2>2. StoreAddress = Address BY <1>1 DEF StoreAddress, Address
  <2>3. Address \in Word BY TypeFacts, AddressType DEF Address
  <2> QED BY <1>1, <1>2, <1>4, <2>1, <2>2, <2>3, StoredAtAddress
<1> QED BY <1>3, <1>4

LEMMA MovAccStores == ASSUME TypeOK, MovAcc PROVE Contained
<1>1. Ready /\ Op \in \ha0 .. \ha3 /\ ~Beyond(W, FetchedWord(1)) BY DEF MovAcc
<1>2. CASE D = 0
  <2>1. data' = data BY <1>2 DEF MovAcc
  <2> QED BY <2>1, NothingStored
<1>3. CASE D # 0
  <2> DEFINE b == FetchedWord(1)
             v == ReadRegister(W, AX)
  <2>1. data' = WriteData(W, b, v) BY <1>3 DEF MovAcc
  <2>2. Op \in \ha2 .. \ha3 BY <1>1, <1>3 DEF D
  <2>3. stringop = 0 BY <1>1 DEF Ready
  <2>4. StoreTargets = {b, b + 1} BY <2>2, <2>3 DEF StoreTargets
  <2>5. b \in Word /\ b \in Int /\ W \in {0, 1} BY FetchedType, DecodeType
  <2>6. ~Beyond(W, b) BY <1>1
  <2> HIDE DEF b, v
  <2>7. StoresOnly({b, (b + W) % 65536}) BY <2>1, <2>5, <2>6, WriteDataStores
  <2>8. (b + W) % 65536 \in {b, b + 1}
    <3>1. 0 <= b /\ b < 65536 BY <2>5, InWord
    <3>2. CASE W = 0 BY <2>5, <3>1, <3>2
    <3>3. CASE W = 1
      <4>1. b # 65535 BY <2>6, <3>3 DEF Beyond
      <4> QED BY <2>5, <3>1, <3>3, <4>1
    <3> QED BY <2>5, <3>2, <3>3
  <2>9. StoresOnly(StoreTargets) BY <2>4, <2>7, <2>8 DEF StoresOnly
  <2> QED BY <2>9, StoredWithin
<1> QED BY <1>2, <1>3

LEMMA StringElementStores == ASSUME TypeOK, StringElement PROVE Contained
<1>1. StoreTargets = {reg[DI], reg[DI] + 1} BY DEF StringElement, StoreTargets
<1> DEFINE b == reg[DI]
           u == At(data, reg[SI])
           v == ReadData(1, reg[SI])
           w == LowByte(reg[AX])
<1>2. \/ data' = Store(data, b, u)
      \/ data' = Store(Store(data, b, LowByte(v)), b + 1, HighByte(v))
      \/ data' = Store(data, b, w)
      \/ data' = data
      BY DEF StringElement, StoreWord
<1> HIDE DEF b, u, v, w
<1>3. \A a : a # b /\ a # b + 1 => At(data', a) = At(data, a)
      BY <1>2, StoreKeeps, StoreTwoKeeps
<1>4. StoresOnly({b, b + 1}) BY <1>3 DEF StoresOnly
<1>5. StoresOnly(StoreTargets) BY <1>1, <1>4 DEF b
<1> QED BY <1>5, StoredWithin

\* The system calls, which store what they were asked for.
LEMMA InterruptsExcepted == ASSUME Interrupting PROVE Contained
BY DEF Interrupting, Ready, Contained
-----------------------------------------------------------------------------
LEMMA ArithmeticStores == ASSUME TypeOK, Arithmetic PROVE Contained
<1>1. CASE AluReg
  <2>1. Operand(W) /\ Storing /\ Op \notin {\h86, \h87} BY <1>1 DEF AluReg, Storing
  <2>2. data' = data \/ \E v : WriteEA(W, v) BY <1>1 DEF AluReg
  <2> QED BY <2>1, <2>2, WriteEAStores, NothingStored
<1>2. CASE AluImm
  <2>1. Operand(W) /\ Storing /\ Op \notin {\h86, \h87} BY <1>2 DEF AluImm, Storing
  <2>2. data' = data \/ \E v : WriteEA(W, v) BY <1>2 DEF AluImm
  <2> QED BY <2>1, <2>2, WriteEAStores, NothingStored
<1>3. CASE IncDecEA
  <2>1. Operand(W) /\ Storing /\ Op \notin {\h86, \h87} BY <1>3 DEF IncDecEA, Storing
  <2>2. \E v : WriteEA(W, v) BY <1>3 DEF IncDecEA
  <2> QED BY <2>1, <2>2, WriteEAStores
<1>4. CASE Not
  <2>1. Operand(W) /\ Storing /\ Op \notin {\h86, \h87} BY <1>4 DEF Not, Storing
  <2>2. \E v : WriteEA(W, v) BY <1>4 DEF Not
  <2> QED BY <2>1, <2>2, WriteEAStores
<1>5. CASE Negate
  <2>1. Operand(W) /\ Storing /\ Op \notin {\h86, \h87} BY <1>5 DEF Negate, Storing
  <2>2. \E v : WriteEA(W, v) BY <1>5 DEF Negate
  <2> QED BY <2>1, <2>2, WriteEAStores
<1>6. CASE Shift
  <2>1. Operand(W) /\ Op \in {\hd0, \hd1, \hd2, \hd3} BY <1>6 DEF Shift
  <2>2. Storing /\ Op \notin {\h86, \h87} BY <2>1 DEF Storing
  <2>3. data' = data \/ \E v : WriteEA(W, v) BY <1>6 DEF Shift
  <2> QED BY <2>1, <2>2, <2>3, WriteEAStores, NothingStored
<1>7. CASE \/ AluAcc \/ IncDecReg \/ TestReg \/ TestAcc \/ TestImm
           \/ Multiply \/ Divide \/ SignedDivide \/ DivideCrash
  <2>1. data' = data
        BY <1>7 DEF AluAcc, IncDecReg, TestReg, TestAcc, TestImm, Tested,
                    Multiply, Divide, SignedDivide, DivideCrash
  <2> QED BY <2>1, NothingStored
<1> QED BY <1>1, <1>2, <1>3, <1>4, <1>5, <1>6, <1>7 DEF Arithmetic

LEMMA TransferStores == ASSUME TypeOK, Transfer PROVE Contained
<1>1. CASE MovReg
  <2>1. Operand(W) /\ Op \in {\h88, \h89, \h8a, \h8b} BY <1>1 DEF MovReg
  <2>2. Storing /\ Op \notin {\h86, \h87} BY <2>1 DEF Storing
  <2>3. data' = data \/ \E v : WriteEA(W, v) BY <1>1 DEF MovReg
  <2> QED BY <2>1, <2>2, <2>3, WriteEAStores, NothingStored
<1>2. CASE MovAcc BY <1>2, MovAccStores
<1>3. CASE MovImmEA
  <2>1. Operand(W) /\ Storing /\ Op \notin {\h86, \h87} BY <1>3 DEF MovImmEA, Storing
  <2>2. \E v : WriteEA(W, v) BY <1>3 DEF MovImmEA
  <2> QED BY <2>1, <2>2, WriteEAStores
<1>4. CASE XchgEA BY <1>4, XchgEAStores
<1>5. CASE PushReg BY <1>5, PushStores DEF PushReg
<1>6. CASE PushEA
  <2>1. Ready /\ Pushing(ReadEA(W)) BY <1>6 DEF PushEA, Operand
  <2> QED BY <1>6, <2>1, PushStores DEF PushEA
<1>7. CASE PopEA BY <1>7, PopEAStores
<1>8. CASE MovImmReg \/ Lea \/ XchgAcc \/ Convert \/ Direction \/ PopReg
  <2>1. data' = data
        BY <1>8 DEF MovImmReg, Lea, XchgAcc, Convert, Direction, PopReg
  <2> QED BY <2>1, NothingStored
<1> QED BY <1>1, <1>2, <1>3, <1>4, <1>5, <1>6, <1>7, <1>8 DEF Transfer

LEMMA ControlStores == ASSUME TypeOK, Control PROVE Contained
<1>1. CASE Call BY <1>1, PushStores DEF Call
<1>2. CASE CallEA
  <2>1. Ready /\ Pushing(ReturnTo(2 + DispLen)) BY <1>2 DEF CallEA, Operand
  <2> QED BY <1>2, <2>1, PushStores DEF CallEA
<1>3. CASE JumpIf \/ Loop \/ JumpIfCXZero \/ Jump \/ JumpEA \/ Ret
  <2>1. data' = data BY <1>3 DEF JumpIf, Loop, JumpIfCXZero, Jump, JumpEA, Ret
  <2> QED BY <2>1, NothingStored
<1> QED BY <1>1, <1>2, <1>3 DEF Control

LEMMA StepStores == ASSUME TypeOK, [Next]_vars PROVE Contained
<1>1. CASE Arithmetic BY <1>1, ArithmeticStores
<1>2. CASE Transfer BY <1>2, TransferStores
<1>3. CASE Control BY <1>3, ControlStores
<1>4. CASE StringElement BY <1>4, StringElementStores
<1>5. CASE SystemCall \/ ExecCall \/ LastCall
  BY <1>5, InterruptsExcepted DEF SystemCall, ExecCall, LastCall
<1>6. CASE Repeat \/ StringStart \/ Refuse \/ Overrun \/ Stopped \/ UNCHANGED vars
  <2>1. data' = data BY <1>6 DEF Repeat, StringStart, Refuse, Overrun, Stopped, vars
  <2> QED BY <2>1, NothingStored
<1> QED BY <1>1, <1>2, <1>3, <1>4, <1>5, <1>6 DEF Next, String, Ending

\* Whatever the program, no instruction changes a byte of data memory outside the
\* operand, the stack words or the string element it names.
THEOREM StoresStay == Spec => StoresStayInOperand
<1>1. TypeOK /\ [Next]_vars => [Contained]_vars BY StepStores
<1>2. TypeOK /\ [Next]_vars
      => [Op # \hcd \/ stringop # 0 =>
            \A a \in DOMAIN data' : At(data', a) # At(data, a) => a \in StoreTargets]_vars
  BY <1>1 DEF Contained
<1>3. Spec => []TypeOK BY TypeCorrect
<1> QED BY <1>2, <1>3, PTL DEF Spec, StoresStayInOperand
-----------------------------------------------------------------------------
\* Between two passes a prefix is in force only while it is the byte before pc.
PrefixPending ==
  option.active /\ stringop = 0 =>
    pc # 0 /\ pc <= 65536 /\ At(text, pc - 1) \in {\hf2, \hf3}

LEMMA FlushSpends == ASSUME Flush PROVE PrefixPending'
BY DEF Flush, NoOption, PrefixPending

LEMMA PassSpends == ASSUME Pass PROVE PrefixPending'
BY FlushSpends DEF Pass

LEMMA SamePending ==
  ASSUME PrefixPending, option' = option, stringop' = stringop, pc' = pc, text' = text
  PROVE  PrefixPending'
BY DEF PrefixPending

LEMMA RepeatPends == ASSUME TypeOK, Repeat PROVE PrefixPending'
<1>1. pc \in Int /\ 0 <= pc /\ pc < 65536 BY TypeFacts DEF Repeat, Ready
<1>2. Op = At(text, pc)
  <2>1. pc + 0 = pc BY <1>1
  <2> QED BY <1>1, <2>1 DEF Op, Fetched
<1>3. Op \in {\hf2, \hf3} /\ pc' = pc + 1 /\ text' = text BY DEF Repeat, Advance
<1>4. pc' - 1 = pc BY <1>1, <1>3
<1>5. At(text', pc' - 1) \in {\hf2, \hf3} BY <1>2, <1>3, <1>4
<1>6. pc' # 0 /\ pc' <= 65536 BY <1>1, <1>3
<1> QED BY <1>5, <1>6 DEF PrefixPending

LEMMA StringPends ==
  ASSUME TypeOK, PrefixPending, StringStart \/ StringElement
  PROVE  PrefixPending'
<1>1. CASE StringStart
  <2>1. CASE option' = NoOption BY <2>1 DEF NoOption, PrefixPending
  <2>2. CASE stringop' = Op /\ Op \in StringOps
    <3>1. stringop' # 0 BY <2>2 DEF StringOps
    <3> QED BY <3>1 DEF PrefixPending
  <2> QED BY <1>1, <2>1, <2>2 DEF StringStart, Flush
<1>2. CASE StringElement
  <2>1. CASE Flush BY <2>1, FlushSpends
  <2>2. CASE stringop' = stringop
    <3>1. stringop' # 0 BY <1>2, <2>2 DEF StringElement
    <3> QED BY <3>1 DEF PrefixPending
  <2> QED BY <1>2, <2>1, <2>2 DEF StringElement
<1> QED BY <1>1, <1>2

LEMMA StepSpends ==
  ASSUME Debug, TypeOK, PrefixPending, [Next]_vars
  PROVE  PrefixPending'
<1>1. CASE Arithmetic
  <2>1. CASE DivideCrash BY <2>1, SamePending DEF DivideCrash
  <2>2. CASE Arithmetic /\ ~DivideCrash
    <3>1. Pass BY <2>2 DEF Arithmetic, AluReg, AluAcc, AluImm, IncDecReg, IncDecEA, TestReg,
                          TestAcc, TestImm, Not, Negate, Multiply, Divide, SignedDivide,
                          Shift, PassKeepingFlags
    <3> QED BY <3>1, PassSpends
  <2> QED BY <1>1, <2>1, <2>2
<1>2. CASE Transfer
  <2>1. Pass BY <1>2 DEF Transfer, MovReg, MovAcc, MovImmReg, MovImmEA, Lea, XchgEA, XchgAcc,
                         Convert, Direction, PushReg, PushEA, PopReg, PopEA, PassKeepingFlags
  <2> QED BY <2>1, PassSpends
<1>3. CASE Control
  <2>1. Pass BY <1>3 DEF Control, JumpIf, Loop, JumpIfCXZero, Jump, JumpEA, Call, CallEA, Ret,
                         PassKeepingFlags
  <2> QED BY <2>1, PassSpends
<1>4. CASE String BY <1>4, RepeatPends, StringPends DEF String
<1>5. CASE SystemCall \/ ExecCall \/ LastCall
  <2>1. Flush BY <1>5 DEF SystemCall, ExecCall, LastCall, Interrupting, Flush
  <2> QED BY <2>1, FlushSpends
<1>6. CASE Ending \/ UNCHANGED vars
  BY <1>6, SamePending DEF Ending, Refuse, Overrun, Stopped, vars
<1> QED BY <1>1, <1>2, <1>3, <1>4, <1>5, <1>6 DEF Next

\* In a traced run, whatever the program and the answers of the operating system, a
\* string instruction repeats only right after its prefix.
THEOREM PrefixesAreSpent == Debug /\ Spec => PrefixIsSpent
<1>1. ASSUME Debug PROVE Spec => PrefixIsSpent
  <2>1. Init => PrefixPending BY DEF Init, NoOption, PrefixPending
  <2>2. TypeOK /\ PrefixPending /\ [Next]_vars => PrefixPending' BY <1>1, StepSpends
  <2>3. TypeOK /\ PrefixPending
        => [StringStart /\ option.active => At(text, pc - 1) \in {\hf2, \hf3}]_vars
    <3>1. ASSUME PrefixPending, StringStart, option.active
          PROVE  At(text, pc - 1) \in {\hf2, \hf3}
      BY <3>1 DEF PrefixPending, StringStart, Ready
    <3> QED BY <3>1
  <2>4. Spec => []TypeOK BY TypeCorrect
  <2> QED BY <2>1, <2>2, <2>3, <2>4, PTL DEF Spec, PrefixIsSpent
<1> QED BY <1>1
=============================================================================
