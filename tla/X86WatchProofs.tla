--------------------------- MODULE X86WatchProofs ---------------------------
(***************************************************************************)
(* Proofs about X86Watch and X86Listed for every program.  X86Watch: a     *)
(* conditional jump decides the comparison the program last made, pop and  *)
(* ret find the word that push or call put where SP points, and a string   *)
(* instruction ends having handled the elements the manual says.  In each  *)
(* part the history and the machine are shown to stay together through     *)
(* every action.  X86Listed: the listing stays in step with the processor. *)
(* First the line of each opcode is worked out, then each action is held   *)
(* against it.                                                             *)
(***************************************************************************)
EXTENDS X86Watch, X86Listed, X86RuntimeProofs

\* An instruction whose operands Observing records.
Comparing == AluComparison \/ ImmComparison \/ StringComparison

\* What the recorded comparison says of the flags of the machine.
FlagsTell ==
  compared # Nothing =>
    /\ compared.m \in Widths
    /\ compared.l \in Values(compared.m) /\ compared.r \in Values(compared.m)
    /\ flags.z = Sub(compared.l, compared.r, compared.m).z
    /\ flags.s = Sub(compared.l, compared.r, compared.m).s
    /\ flags.o = Sub(compared.l, compared.r, compared.m).o
    /\ flags.c = Sub(compared.l, compared.r, compared.m).c

SameFlags == flags'.z = flags.z /\ flags'.s = flags.s /\ flags'.o = flags.o /\ flags'.c = flags.c

\* The three ways a pass keeps FlagsTell: it leaves the flags alone, it makes the
\* manual's reader forget the comparison, or it compares.
LEMMA Quiet ==
  ASSUME FlagsTell, Observing, ~Comparing, SameFlags
  PROVE  FlagsTell'
<1>1. compared' = Nothing \/ compared' = compared BY DEF Observing, Comparing
<1>2. CASE compared' = Nothing BY <1>2 DEF FlagsTell, Nothing
<1>3. CASE compared' = compared BY <1>3 DEF FlagsTell, SameFlags, Nothing
<1> QED BY <1>1, <1>2, <1>3

LEMMA Forgets ==
  ASSUME Observing, ~Comparing, SetsFlags
  PROVE  FlagsTell'
<1>1. compared' = Nothing BY DEF Observing, Comparing
<1> QED BY <1>1 DEF FlagsTell, Nothing

LEMMA Tells ==
  ASSUME Observing, Comparing,
         NEW m \in Widths, NEW x \in Values(m), NEW y \in Values(m),
         m = IF StringComparison THEN 256 ELSE Width(W),
         Operands = <<x, y>>, SetZSOC(Sub(x, y, m))
  PROVE  FlagsTell'
<1>1. compared' = [m |-> m, l |-> x, r |-> y] BY DEF Observing, Comparing
<1>2. compared'.m = m /\ compared'.l = x /\ compared'.r = y BY <1>1
<1> DEFINE d == Sub(x, y, m)
<1>3. SetZSOC(d) OBVIOUS
<1> HIDE DEF d
<1>4. flags'.z = d.z /\ flags'.s = d.s /\ flags'.o = d.o /\ flags'.c = d.c
      BY <1>3 DEF SetZSOC
<1> QED BY <1>2, <1>4 DEF FlagsTell, d

LEMMA OperandFits ==
  ASSUME NEW w \in {0, 1}, NEW v \in Word, w = 0 => v \in Byte
  PROVE  v \in Values(Width(w))
BY DEF Width, Word, Byte

\* The opcodes of comparisons, and that one pass is no two kinds of comparison.
LEMMA OtherOpcodes ==
  ASSUME TypeOK, Ready, Op >= 64, Op \notin {\h80, \h81, \h83}
  PROVE  ~Comparing
<1>1. Op \in Int BY DecodeType
<1> QED BY <1>1 DEF Comparing, AluComparison, ImmComparison, StringComparison, Ready

LEMMA QuietPass ==
  ASSUME TypeOK, FlagsTell, Observing, Ready, Op >= 64, Op \notin {\h80, \h81, \h83}, SameFlags
  PROVE  FlagsTell'
BY OtherOpcodes, Quiet

LEMMA ForgetfulPass ==
  ASSUME TypeOK, Observing, Ready, Op >= 64, Op \notin {\h80, \h81, \h83}, SetsFlags
  PROVE  FlagsTell'
BY OtherOpcodes, Forgets

LEMMA KeepingIsQuiet ==
  ASSUME TypeOK, FlagsTell, Observing, Ready, Op >= 64, Op \notin {\h80, \h81, \h83},
         PassKeepingFlags
  PROVE  FlagsTell'
BY QuietPass DEF PassKeepingFlags, SameFlags
-----------------------------------------------------------------------------
\* The passes that compare: cmp and sub in their three encodings.
LEMMA AluRegTells == ASSUME TypeOK, FlagsTell, Observing, AluReg PROVE FlagsTell'
<1> DEFINE x == IF D = 1 THEN ReadRegister(W, Reg) ELSE ReadEA(W)
           y == IF D = 1 THEN ReadEA(W) ELSE ReadRegister(W, Reg)
<1>1. Ready /\ Op < 64 /\ Op % 8 <= 3 /\ Op \in Int BY DecodeType DEF AluReg, Operand
<1>2. SetZSOC(TwoOperand(Kind, x, y, flags, Width(W))) BY DEF AluReg
<1>3. ~ImmComparison /\ ~StringComparison
      BY <1>1 DEF ImmComparison, StringComparison, Ready
<1>4. CASE Kind \in {5, 7}
  <2>1. AluComparison BY <1>1, <1>4 DEF AluComparison
  <2>2. Operands = <<x, y>> BY <1>1, <1>3, <2>1 DEF Operands
  <2>3. W \in {0, 1} /\ Width(W) \in Widths BY DecodeType, WidthType
  <2>4. x \in Word /\ y \in Word /\ (W = 0 => x \in Byte /\ y \in Byte)
        BY DecodeType, ReadRegisterType, ReadEAType
  <2> HIDE DEF x, y
  <2>5. x \in Values(Width(W)) /\ y \in Values(Width(W)) BY <2>3, <2>4, OperandFits
  <2>6. SetZSOC(Sub(x, y, Width(W))) BY <1>2, <1>4 DEF TwoOperand
  <2> QED BY <1>3, <2>1, <2>2, <2>3, <2>5, <2>6, Tells DEF Comparing
<1>5. CASE Kind \notin {5, 7}
  <2>1. ~Comparing BY <1>3, <1>5 DEF Comparing, AluComparison
  <2> QED BY <1>1, <2>1, Forgets DEF SetsFlags
<1> QED BY <1>4, <1>5

LEMMA AluAccTells == ASSUME TypeOK, FlagsTell, Observing, AluAcc PROVE FlagsTell'
<1> DEFINE x == ReadRegister(W, AX)
           y == Immediate(W, 1)
<1>1. Ready /\ Op < 64 /\ Op % 8 \in {4, 5} /\ Op \in Int BY DecodeType DEF AluAcc
<1>2. SetZSOC(TwoOperand(Kind, x, y, flags, Width(W))) BY DEF AluAcc
<1>3. ~ImmComparison /\ ~StringComparison
      BY <1>1 DEF ImmComparison, StringComparison, Ready
<1>4. CASE Kind \in {5, 7}
  <2>1. AluComparison BY <1>1, <1>4 DEF AluComparison
  <2>2. Operands = <<x, y>> BY <1>1, <1>3, <2>1 DEF Operands
  <2>3. W \in {0, 1} /\ Width(W) \in Widths BY DecodeType, WidthType
  <2>4. x \in Word /\ (W = 0 => x \in Byte) BY <2>3, NamedRegisters, ReadRegisterType
  <2>5. y \in Word /\ (W = 0 => y \in Byte) BY <2>3, FetchedType DEF Immediate
  <2> HIDE DEF x, y
  <2>6. x \in Values(Width(W)) /\ y \in Values(Width(W)) BY <2>3, <2>4, <2>5, OperandFits
  <2>7. SetZSOC(Sub(x, y, Width(W))) BY <1>2, <1>4 DEF TwoOperand
  <2> QED BY <1>3, <2>1, <2>2, <2>3, <2>6, <2>7, Tells DEF Comparing
<1>5. CASE Kind \notin {5, 7}
  <2>1. ~Comparing BY <1>3, <1>5 DEF Comparing, AluComparison
  <2> QED BY <1>1, <2>1, Forgets DEF SetsFlags
<1> QED BY <1>4, <1>5

LEMMA AluImmTells == ASSUME TypeOK, FlagsTell, Observing, AluImm PROVE FlagsTell'
<1> DEFINE x == ReadEA(W)
           y == IF Reg = 4 /\ Op = \h80 THEN x ELSE ImmediateSW
<1>1. Ready /\ Op \in {\h80, \h81, \h83} BY DEF AluImm, Operand
<1>2. SetZSOC(TwoOperand(Reg, x, y, flags, Width(W))) BY DEF AluImm
<1>3. ~AluComparison /\ ~StringComparison
      BY <1>1 DEF AluComparison, StringComparison, Ready
<1>4. CASE Reg \in {5, 7}
  <2>1. ImmComparison BY <1>1, <1>4 DEF ImmComparison
  <2>2. y = ImmediateSW BY <1>4
  <2>3. Operands = <<x, y>> BY <1>3, <2>1, <2>2 DEF Operands
  <2>4. W \in {0, 1} /\ Width(W) \in Widths BY DecodeType, WidthType
  <2>5. x \in Word /\ (W = 0 => x \in Byte) BY <2>4, ReadEAType
  <2>6. y \in Word /\ (W = 0 => y \in Byte)
    <3>1. ImmediateSW \in Word BY ImmediateSWType
    <3>2. CASE W = 0
      <4>1. Op # \h83 BY <3>2 DEF W
      <4>2. ImmediateSW = Fetched(ImmAt) BY <3>2, <4>1 DEF ImmediateSW, Immediate
      <4> QED BY <2>2, <3>1, <4>2, FetchedType
    <3> QED BY <2>2, <3>1, <3>2
  <2> HIDE DEF x, y
  <2>7. x \in Values(Width(W)) /\ y \in Values(Width(W)) BY <2>4, <2>5, <2>6, OperandFits
  <2>8. SetZSOC(Sub(x, y, Width(W))) BY <1>2, <1>4 DEF TwoOperand
  <2> QED BY <1>3, <2>1, <2>3, <2>4, <2>7, <2>8, Tells DEF Comparing
<1>5. CASE Reg \notin {5, 7}
  <2>1. ~Comparing BY <1>3, <1>5 DEF Comparing, ImmComparison
  <2> QED BY <1>1, <2>1, Forgets DEF SetsFlags
<1> QED BY <1>4, <1>5

\* The only other pass that compares is a turn of cmpsb or scasb.
LEMMA StringElementTells == ASSUME TypeOK, FlagsTell, Observing, StringElement PROVE FlagsTell'
<1> DEFINE x == IF stringop = \ha6 THEN At(data, reg[SI]) ELSE LowByte(reg[AX])
           y == At(data, reg[DI])
<1>1. Running /\ stringop # 0 BY DEF StringElement
<1>2. ~AluComparison /\ ~ImmComparison BY <1>1 DEF AluComparison, ImmComparison, Ready
<1>3. CASE Compares
  <2>1. StringComparison BY <1>1, <1>3 DEF StringComparison, Compares
  <2>2. Operands = <<x, y>> BY <1>2 DEF Operands
  <2>3. x \in Byte /\ y \in Byte
        BY TypeFacts, AtByte, NamedRegisters, RegisterIsWord, HalvesAreBytes
  <2>4. SetZSOC(Sub(x, y, 256)) BY <1>3 DEF StringElement, ElementCompared
  <2> HIDE DEF x, y
  <2> QED BY <2>1, <2>2, <2>3, <2>4, Tells DEF Comparing, Widths, Byte
<1>4. CASE ~Compares
  <2>1. ~Comparing BY <1>2, <1>4 DEF Comparing, StringComparison, Compares
  <2>2. SameFlags BY <1>4 DEF StringElement, SameFlags
  <2> QED BY <2>1, <2>2, Quiet
<1> QED BY <1>3, <1>4
-----------------------------------------------------------------------------
\* Every action, group by group.
LEMMA ArithmeticTells ==
  ASSUME TypeOK, FlagsTell, Observing, Arithmetic, status' = "running"
  PROVE  FlagsTell'
<1>1. CASE AluReg BY <1>1, AluRegTells
<1>2. CASE AluAcc BY <1>2, AluAccTells
<1>3. CASE AluImm BY <1>3, AluImmTells
<1>4. CASE IncDecReg BY <1>4, ForgetfulPass DEF IncDecReg, SetsFlags
<1>5. CASE IncDecEA BY <1>5, ForgetfulPass DEF IncDecEA, Operand, SetsFlags
<1>6. CASE TestReg BY <1>6, ForgetfulPass DEF TestReg, Operand, SetsFlags
<1>7. CASE TestAcc BY <1>7, ForgetfulPass DEF TestAcc, SetsFlags
<1>8. CASE TestImm BY <1>8, ForgetfulPass DEF TestImm, Operand, SetsFlags
<1>9. CASE Not BY <1>9, KeepingIsQuiet DEF Not, Operand
<1>10. CASE Negate BY <1>10, ForgetfulPass DEF Negate, Operand, SetsFlags
<1>11. CASE Multiply BY <1>11, ForgetfulPass DEF Multiply, Operand, SetsFlags
<1>12. CASE Divide BY <1>12, KeepingIsQuiet DEF Divide, Dividing, Operand
<1>13. CASE SignedDivide BY <1>13, KeepingIsQuiet DEF SignedDivide, Dividing, Operand
<1>14. CASE DivideCrash BY <1>14 DEF DivideCrash
<1>15. CASE Shift BY <1>15, ForgetfulPass DEF Shift, Operand, SetsFlags
<1> QED BY <1>1, <1>2, <1>3, <1>4, <1>5, <1>6, <1>7, <1>8, <1>9, <1>10, <1>11, <1>12,
           <1>13, <1>14, <1>15 DEF Arithmetic

LEMMA TransferTells == ASSUME TypeOK, FlagsTell, Observing, Transfer PROVE FlagsTell'
<1>1. CASE MovReg BY <1>1, KeepingIsQuiet DEF MovReg, Operand
<1>2. CASE MovAcc BY <1>2, KeepingIsQuiet DEF MovAcc
<1>3. CASE MovImmReg BY <1>3, KeepingIsQuiet DEF MovImmReg
<1>4. CASE MovImmEA BY <1>4, KeepingIsQuiet DEF MovImmEA, Operand
<1>5. CASE Lea BY <1>5, KeepingIsQuiet DEF Lea, Operand
<1>6. CASE XchgEA BY <1>6, KeepingIsQuiet DEF XchgEA, Operand
<1>7. CASE XchgAcc BY <1>7, KeepingIsQuiet DEF XchgAcc
<1>8. CASE Convert BY <1>8, KeepingIsQuiet DEF Convert
<1>9. CASE Direction
  <2>1. Ready /\ Op \in {\hfc, \hfd} BY <1>9 DEF Direction
  <2>2. flags \in Flags BY TypeFacts
  <2>3. SameFlags BY <1>9, <2>2 DEF Direction, SameFlags, Flags
  <2> QED BY <2>1, <2>3, QuietPass
<1>10. CASE PushReg BY <1>10, KeepingIsQuiet DEF PushReg
<1>11. CASE PushEA BY <1>11, KeepingIsQuiet DEF PushEA, Operand
<1>12. CASE PopReg BY <1>12, KeepingIsQuiet DEF PopReg
<1>13. CASE PopEA BY <1>13, KeepingIsQuiet DEF PopEA, Operand
<1> QED BY <1>1, <1>2, <1>3, <1>4, <1>5, <1>6, <1>7, <1>8, <1>9, <1>10, <1>11, <1>12,
           <1>13 DEF Transfer

LEMMA ControlTells == ASSUME TypeOK, FlagsTell, Observing, Control PROVE FlagsTell'
<1>1. CASE JumpIf BY <1>1, KeepingIsQuiet DEF JumpIf
<1>2. CASE Loop BY <1>2, KeepingIsQuiet DEF Loop
<1>3. CASE JumpIfCXZero BY <1>3, KeepingIsQuiet DEF JumpIfCXZero
<1>4. CASE Jump BY <1>4, KeepingIsQuiet DEF Jump
<1>5. CASE JumpEA BY <1>5, KeepingIsQuiet DEF JumpEA, Operand
<1>6. CASE Call BY <1>6, KeepingIsQuiet DEF Call
<1>7. CASE CallEA BY <1>7, KeepingIsQuiet DEF CallEA, Operand
<1>8. CASE Ret BY <1>8, KeepingIsQuiet DEF Ret
<1> QED BY <1>1, <1>2, <1>3, <1>4, <1>5, <1>6, <1>7, <1>8 DEF Control

LEMMA OthersTell ==
  ASSUME TypeOK, FlagsTell, Observing, status' = "running",
         String \/ SystemCall \/ ExecCall \/ LastCall \/ Refuse \/ Overrun
  PROVE  FlagsTell'
<1>1. CASE Repeat BY <1>1, QuietPass DEF Repeat, SameFlags
<1>2. CASE StringStart BY <1>2, QuietPass DEF StringStart, StringOps, SameFlags
<1>3. CASE StringElement BY <1>3, StringElementTells
<1>4. CASE SystemCall BY <1>4, QuietPass DEF SystemCall, Interrupting, SameFlags
<1>5. CASE ExecCall BY <1>5, QuietPass DEF ExecCall, Interrupting, SameFlags
<1>6. CASE LastCall BY <1>6, QuietPass DEF LastCall, Interrupting, SameFlags
<1>7. CASE Refuse \/ Overrun BY <1>7 DEF Refuse, Overrun
<1> QED BY <1>1, <1>2, <1>3, <1>4, <1>5, <1>6, <1>7 DEF String
-----------------------------------------------------------------------------
\* While the machine runs, Z, S, O and C are those of the comparison a program last
\* made, if it made one that nothing has spoilt.
TellingInv == TypeOK /\ (Running => FlagsTell)

\* Every action but the stutter of a stopped machine needs the loop running.
LEMMA NextRuns == ASSUME Next PROVE Running \/ Stopped
<1>1. CASE Arithmetic
      BY <1>1 DEF Arithmetic, AluReg, AluAcc, AluImm, IncDecReg, IncDecEA, TestReg, TestAcc,
         TestImm, Not, Negate, Multiply, Divide, SignedDivide, DivideCrash, Shift, Dividing,
         Operand, Ready
<1>2. CASE Transfer
      BY <1>2 DEF Transfer, MovReg, MovAcc, MovImmReg, MovImmEA, Lea, XchgEA, XchgAcc, Convert,
         Direction, PushReg, PushEA, PopReg, PopEA, Operand, Ready
<1>3. CASE Control
      BY <1>3 DEF Control, JumpIf, Loop, JumpIfCXZero, Jump, JumpEA, Call, CallEA, Ret,
         Operand, Ready
<1>4. CASE String BY <1>4 DEF String, Repeat, StringStart, StringElement, Ready
<1>5. CASE SystemCall \/ ExecCall \/ LastCall
      BY <1>5 DEF SystemCall, ExecCall, LastCall, Interrupting, Ready
<1>6. CASE Ending BY <1>6 DEF Ending, Refuse, Overrun, Ready
<1> QED BY <1>1, <1>2, <1>3, <1>4, <1>5, <1>6 DEF Next

LEMMA TellingStep == ASSUME TellingInv, [WatchedNext]_allvars PROVE TellingInv'
<1>1. TypeOK BY DEF TellingInv
<1>2. [Next]_vars BY DEF WatchedNext, allvars
<1>3. TypeOK' BY <1>1, <1>2, StepType DEF Typed
<1>4. ASSUME status' = "running" PROVE FlagsTell'
  <2>1. CASE UNCHANGED allvars
    <3>1. UNCHANGED <<flags, compared, status>> BY <2>1 DEF allvars, vars, watched
    <3> QED BY <1>4, <3>1 DEF TellingInv, Running, FlagsTell
  <2>2. CASE WatchedNext
    <3>1. Next /\ Observing BY <2>2 DEF WatchedNext
    <3>2. CASE Stopped BY <1>4, <3>2 DEF Stopped, Running, vars
    <3>3. CASE ~Stopped
      <4>1. Running BY <3>1, <3>3, NextRuns
      <4>2. FlagsTell BY <4>1 DEF TellingInv
      <4> QED BY <1>1, <1>4, <3>1, <3>3, <4>2, ArithmeticTells, TransferTells, ControlTells,
                 OthersTell DEF Next, Ending
    <3> QED BY <3>2, <3>3
  <2> QED BY <2>1, <2>2
<1> QED BY <1>3, <1>4 DEF TellingInv, Running

LEMMA JumpTakesRelation ==
  ASSUME TellingInv, JumpIf, compared # Nothing
  PROVE  pc' = IF Relation(Op % 16, compared.l, compared.r, compared.m)
               THEN Short(2) % 65536 ELSE pc + 2
<1> DEFINE m == compared.m
           d == Sub(compared.l, compared.r, m)
<1>1. Op % 16 \in Conditions /\ GoIf(Holds(Op % 16, flags), 2) /\ Running
      BY DEF JumpIf, Ready
<1>2. FlagsTell BY <1>1 DEF TellingInv
<1>3. /\ m \in Widths /\ compared.l \in Values(m) /\ compared.r \in Values(m)
      /\ flags.z = d.z /\ flags.s = d.s /\ flags.o = d.o /\ flags.c = d.c
      BY <1>2 DEF FlagsTell
<1>4. Holds(Op % 16, d) <=> Relation(Op % 16, compared.l, compared.r, m)
      BY <1>1, <1>3, CompareDecides
<1> HIDE DEF d, m
<1>5. Holds(Op % 16, flags) <=> Holds(Op % 16, d) BY <1>3 DEF Holds
<1>6. CASE Holds(Op % 16, flags)
  <2>1. pc' = Short(2) % 65536 BY <1>1, <1>6 DEF GoIf, JumpTo
  <2> QED BY <1>4, <1>5, <1>6, <2>1 DEF m
<1>7. CASE ~Holds(Op % 16, flags)
  <2>1. pc' = pc + 2 BY <1>1, <1>7 DEF GoIf, Advance
  <2> QED BY <1>4, <1>5, <1>7, <2>1 DEF m
<1> QED BY <1>6, <1>7

\* In every program a conditional jump takes the relation, signed or unsigned, of the
\* operands of the last comparison, through any instructions that leave Z, S, O and C
\* alone: the cases 72 .. 7f of run() fit those of cmp, sub, cmpsb and scasb.
THEOREM JumpsDecide == WatchedSpec => JumpsDecideComparison
<1>1. WatchedInit => TellingInv
      BY InitType DEF WatchedInit, TellingInv, FlagsTell
<1>2. TellingInv /\ [WatchedNext]_allvars => TellingInv' BY TellingStep
<1>3. TellingInv /\ [WatchedNext]_allvars =>
        [JumpIf /\ compared # Nothing =>
           pc' = IF Relation(Op % 16, compared.l, compared.r, compared.m)
                 THEN Short(2) % 65536 ELSE pc + 2]_allvars
      BY JumpTakesRelation
<1> QED BY <1>1, <1>2, <1>3, PTL DEF WatchedSpec, JumpsDecideComparison
-----------------------------------------------------------------------------
\* The word of memory at a, whose second byte may be at address 0.
WordIn(m, a) == Pair(At(m, a), At(m, (a + 1) % 65536))

\* What the history holds is what memory holds.
HeldThere ==
  \A a \in DOMAIN held : a \in Word /\ held[a] \in Word /\ held[a] = WordIn(data, a)

HoldingInv == TypeOK /\ AddrFollowsPc /\ (Running => HeldThere)

\* No action but the four that push takes the opcodes that push.
LEMMA PushesOnly ==
  ASSUME Next, PushesWord, status' = "running"
  PROVE  PushReg \/ PushEA \/ Call \/ CallEA
<1>1. Ready /\ Running /\ stringop = 0 BY DEF PushesWord, Ready
<1>2. Op \in \h50 .. \h57 \/ Op = \he8 \/ (Op = \hff /\ Reg \in {2, 6}) BY DEF PushesWord
<1>3. ~Arithmetic
  <2>1. ~AluReg /\ ~AluAcc /\ ~AluImm BY <1>2 DEF AluReg, AluAcc, AluImm
  <2>2. ~IncDecReg /\ ~IncDecEA BY <1>2 DEF IncDecReg, IncDecEA
  <2>3. ~TestReg /\ ~TestAcc /\ ~TestImm /\ ~Not /\ ~Negate
        BY <1>2 DEF TestReg, TestAcc, TestImm, Not, Negate
  <2>4. ~Multiply /\ ~Divide /\ ~SignedDivide /\ ~DivideCrash /\ ~Shift
        BY <1>2 DEF Multiply, Divide, SignedDivide, DivideCrash, Dividing, Shift
  <2> QED BY <2>1, <2>2, <2>3, <2>4 DEF Arithmetic
<1>4. Transfer => PushReg \/ PushEA
  <2>1. ~MovReg /\ ~MovAcc /\ ~MovImmReg /\ ~MovImmEA /\ ~Lea
        BY <1>2 DEF MovReg, MovAcc, MovImmReg, MovImmEA, Lea
  <2>2. ~XchgEA /\ ~XchgAcc /\ ~Convert /\ ~Direction /\ ~PopReg /\ ~PopEA
        BY <1>2 DEF XchgEA, XchgAcc, Convert, Direction, PopReg, PopEA
  <2> QED BY <2>1, <2>2 DEF Transfer
<1>5. Control => Call \/ CallEA
  <2>1. ~JumpIf /\ ~Loop /\ ~JumpIfCXZero /\ ~Jump /\ ~JumpEA /\ ~Ret
        BY <1>2 DEF JumpIf, Loop, JumpIfCXZero, Jump, JumpEA, Ret
  <2> QED BY <2>1 DEF Control
<1>6. ~String BY <1>1, <1>2 DEF String, Repeat, StringStart, StringElement, StringOps
<1>7. ~SystemCall /\ ~ExecCall /\ ~LastCall
      BY <1>2 DEF SystemCall, ExecCall, LastCall, Interrupting
<1>8. ~Ending BY <1>1 DEF Ending, Refuse, Overrun, Stopped
<1> QED BY <1>3, <1>4, <1>5, <1>6, <1>7, <1>8 DEF Next

\* They push the word the instruction set names.
LEMMA PushesNamed ==
  ASSUME TypeOK, AddrFollowsPc, Next, PushesWord, status' = "running"
  PROVE  \E v \in Word : v = WordPushed % 65536 /\ data' = Pushed(v)
<1>1. Ready /\ pc \in Nat /\ pc < 65536 /\ addr = pc
      BY TypeFacts DEF PushesWord, Ready, AddrFollowsPc
<1>2. DispLen \in Int BY DEF DispLen
<1>3. CASE PushReg
  <2>1. Op \in \h50 .. \h57 /\ data' = Pushed(reg[Op % 8]) BY <1>3 DEF PushReg, Pushing
  <2>2. WordPushed = reg[Op % 8] BY <2>1 DEF WordPushed
  <2>3. Op % 8 \in 0 .. 7 BY <2>1
  <2>4. reg[Op % 8] \in Word BY <2>3, RegisterIsWord
  <2> QED BY <2>1, <2>2, <2>4, InWord
<1>4. CASE PushEA
  <2>1. /\ Op \in {\hfe, \hff} /\ Reg = 6 /\ data' = Pushed(ReadEA(W))
        BY <1>4 DEF PushEA, Pushing
  <2>2. Op = \hff /\ W = 1 BY <2>1 DEF PushesWord, W
  <2>3. WordPushed = ReadEA(1) BY <2>1, <2>2 DEF WordPushed
  <2>4. ReadEA(1) \in Word BY ReadEAType
  <2> QED BY <2>1, <2>2, <2>3, <2>4, InWord
<1>5. CASE Call
  <2>1. Op = \he8 /\ data' = Pushed(ReturnTo(3)) BY <1>5 DEF Call, Pushing
  <2>2. WordPushed = addr + 3 BY <2>1 DEF WordPushed
  <2>3. ReturnTo(3) \in Word BY <1>1, ModWord DEF ReturnTo
  <2> QED BY <1>1, <2>1, <2>2, <2>3 DEF ReturnTo
<1>6. CASE CallEA
  <2>1. Op \in {\hfe, \hff} /\ Reg = 2 /\ data' = Pushed(ReturnTo(2 + DispLen))
        BY <1>6 DEF CallEA, Pushing
  <2>2. Op = \hff BY <2>1 DEF PushesWord
  <2>3. WordPushed = addr + 2 + DispLen BY <2>1, <2>2 DEF WordPushed
  <2>4. ReturnTo(2 + DispLen) \in Word BY <1>1, <1>2, ModWord DEF ReturnTo
  <2>5. (addr + 2 + DispLen) % 65536 = ReturnTo(2 + DispLen) BY <1>1, <1>2 DEF ReturnTo
  <2> QED BY <2>1, <2>3, <2>4, <2>5
<1> QED BY <1>3, <1>4, <1>5, <1>6, PushesOnly

\* A word pushed lies below SP, the low byte first.
LEMMA PushedLies ==
  ASSUME TypeOK, NEW v \in Word
  PROVE  WordIn(Pushed(v), Below(reg[SP])) = v /\ Below(reg[SP]) \in Word
<1>1. reg[SP] \in Int /\ 0 <= reg[SP] /\ reg[SP] < 65536
      BY NamedRegisters, RegisterIsWord, InWord
<1> DEFINE top == Below(reg[SP])
           next == (reg[SP] - 1) % 65536
<1>2. top \in Int /\ next \in Int /\ top # next /\ (top + 1) % 65536 = next
      BY <1>1 DEF Below
<1>3. Pushed(v) = Store(Store(data, next, HighByte(v)), top, LowByte(v)) BY DEF Pushed, Below
<1>4. top \in Word BY <1>1, ModWord DEF Below
<1> HIDE DEF top, next
<1>5. At(Pushed(v), top) = LowByte(v) /\ At(Pushed(v), next) = HighByte(v)
      BY <1>2, <1>3 DEF At, Store
<1>6. v \in Int /\ 0 <= v /\ v < 65536 BY InWord
<1>7. Pair(LowByte(v), HighByte(v)) = v BY <1>6 DEF Pair, LowByte, HighByte
<1> QED BY <1>2, <1>4, <1>5, <1>7 DEF WordIn, top

\* What the history keeps has kept its two bytes, whatever the step did.
LEMMA KeptThere ==
  ASSUME HeldThere, NEW a \in DOMAIN held, ~Overwritten(a)
  PROVE  a \in Word /\ held[a] \in Word /\ held[a] = WordIn(data', a)
<1>1. At(data', a) = At(data, a) /\ At(data', (a + 1) % 65536) = At(data, (a + 1) % 65536)
      BY DEF Overwritten
<1> QED BY <1>1 DEF HeldThere, WordIn

LEMMA HeldStays ==
  ASSUME TypeOK, AddrFollowsPc, HeldThere, Next, Holding, status' = "running"
  PROVE  HeldThere'
<1> DEFINE top == Below(reg[SP])
           unspoilt == {b \in DOMAIN held : ~Overwritten(b)}
           kept == {a \in DOMAIN held : ~Overwritten(a) /\ (reg'[SP] # reg[SP] => a # reg[SP])}
<1>1. CASE PushesWord
  <2>1. PICK v \in Word : v = WordPushed % 65536 /\ data' = Pushed(v) BY <1>1, PushesNamed
  <2>2. held' = [a \in unspoilt \cup {top} |-> IF a = top THEN v ELSE held[a]]
        BY <1>1, <2>1 DEF Holding
  <2>3. top \in Word /\ WordIn(data', top) = v BY <2>1, PushedLies
  <2> HIDE DEF top
  <2>4. ASSUME NEW a \in DOMAIN held'
        PROVE  a \in Word /\ held'[a] \in Word /\ held'[a] = WordIn(data', a)
    <3>1. CASE a = top BY <3>1, <2>1, <2>2, <2>3
    <3>2. CASE a # top
      <4>1. a \in DOMAIN held /\ ~Overwritten(a) /\ held'[a] = held[a] BY <3>2, <2>2
      <4> QED BY <4>1, KeptThere
    <3> QED BY <3>1, <3>2
  <2> QED BY <2>4 DEF HeldThere, WordIn, At
<1>2. CASE ~PushesWord
  <2>1. held' = [a \in kept |-> held[a]] BY <1>2 DEF Holding
  <2>2. ASSUME NEW a \in DOMAIN held'
        PROVE  a \in Word /\ held'[a] \in Word /\ held'[a] = WordIn(data', a)
    <3>1. a \in DOMAIN held /\ ~Overwritten(a) /\ held'[a] = held[a] BY <2>1
    <3> QED BY <3>1, KeptThere
  <2> QED BY <2>2 DEF HeldThere, WordIn, At
<1> QED BY <1>1, <1>2

LEMMA HoldingStep == ASSUME HoldingInv, [WatchedNext]_allvars PROVE HoldingInv'
<1>1. TypeOK /\ AddrFollowsPc BY DEF HoldingInv
<1>2. [Next]_vars BY DEF WatchedNext, allvars
<1>3. TypeOK' /\ AddrFollowsPc' BY <1>1, <1>2, StepType DEF Typed
<1>4. ASSUME status' = "running" PROVE HeldThere'
  <2>1. CASE UNCHANGED allvars
    <3>1. UNCHANGED <<data, held, status>> BY <2>1 DEF allvars, vars, watched
    <3> QED BY <1>4, <3>1 DEF HoldingInv, Running, HeldThere, WordIn, At
  <2>2. CASE WatchedNext
    <3>1. Next /\ Holding BY <2>2 DEF WatchedNext
    <3>2. Running
      <4>1. CASE Stopped BY <1>4, <4>1 DEF Stopped, vars, Running
      <4> QED BY <4>1, <3>1, NextRuns
    <3> QED BY <1>1, <1>4, <3>1, <3>2, HeldStays DEF HoldingInv
  <2> QED BY <2>1, <2>2
<1> QED BY <1>3, <1>4 DEF HoldingInv, Running

LEMMA PopsHeld ==
  ASSUME HoldingInv, Next, reg[SP] \in DOMAIN held
  PROVE  /\ PopReg => reg'[Op % 8] = held[reg[SP]]
         /\ Ret => pc' = held[reg[SP]]
<1>1. TypeOK BY DEF HoldingInv
<1>2. ASSUME Running PROVE StackTop % 65536 = held[reg[SP]]
  <2>1. held[reg[SP]] = StackTop /\ held[reg[SP]] \in Word
        BY <1>2 DEF HoldingInv, HeldThere, WordIn, StackTop
  <2> QED BY <2>1, InWord
<1>3. ASSUME PopReg PROVE reg'[Op % 8] = held[reg[SP]]
  <2>1. Running /\ Op \in \h58 .. \h5f /\ reg' = WithWord(Popped, Op % 8, StackTop)
        BY <1>3 DEF PopReg, Ready
  <2>2. Op % 8 \in 0 .. 7 BY <2>1
  <2>3. Popped \in Registers BY <1>1, PoppedType
  <2>4. reg'[Op % 8] = StackTop % 65536 BY <2>1, <2>2, <2>3 DEF WithWord, Registers
  <2> QED BY <2>1, <2>4, <1>2
<1>4. ASSUME Ret PROVE pc' = held[reg[SP]]
  <2>1. Running /\ pc' = StackTop % 65536 BY <1>4 DEF Ret, Ready, JumpTo
  <2> QED BY <2>1, <1>2
<1> QED BY <1>3, <1>4

\* In every program pop and ret take back the word that push or call put where SP
\* points, if nothing has stored over it, wherever SP is: push(), pop(), nextPC() and
\* the wrap of SP in the middle of a word fit each other.
THEOREM PopsFind == WatchedSpec => PopsFindPushed
<1>1. WatchedInit => HoldingInv
      BY InitType DEF WatchedInit, HoldingInv, HeldThere
<1>2. HoldingInv /\ [WatchedNext]_allvars => HoldingInv' BY HoldingStep
<1>3. HoldingInv /\ [WatchedNext]_allvars =>
        [reg[SP] \in DOMAIN held =>
           /\ PopReg => reg'[Op % 8] = held[reg[SP]]
           /\ Ret => pc' = held[reg[SP]]]_allvars
      BY PopsHeld DEF WatchedNext
<1> QED BY <1>1, <1>2, <1>3, PTL DEF WatchedSpec, PopsFindPushed
-----------------------------------------------------------------------------
\* The places of the elements of a string, from base b, s bytes apart.
Strides == {1, -1, 2, -2}
Place(b, s, i) == (b + i * s) % 65536

LEMMA PlaceIsWord == ASSUME NEW b, b \in Int, NEW s \in Strides, NEW i, i \in Nat
                     PROVE  Place(b, s, i) \in Word
<1>1. i * s \in Int BY DEF Strides
<1> QED BY <1>1, ModWord DEF Place

LEMMA PlaceZero == ASSUME NEW b \in Word, NEW s \in Strides PROVE Place(b, s, 0) = b
<1>1. b \in Int /\ 0 <= b /\ b < 65536 BY InWord
<1>2. 0 * s = 0 BY DEF Strides
<1>3. b + 0 * s = b BY <1>1, <1>2
<1> QED BY <1>1, <1>3 DEF Place

\* A register of 16 bits moved by d, by the name the prover knows it by.
MovedBy(p, d) == (p + d) % 65536

LEMMA PlaceStep ==
  ASSUME NEW b, b \in Int, NEW s \in Strides, NEW i, i \in Nat
  PROVE  MovedBy(Place(b, s, i), s) = Place(b, s, i + 1)
<1>1. CASE s = 1 BY <1>1 DEF Place, MovedBy
<1>2. CASE s = -1 BY <1>2 DEF Place, MovedBy
<1>3. CASE s = 2 BY <1>3 DEF Place, MovedBy
<1>4. CASE s = -2 BY <1>4 DEF Place, MovedBy
<1> QED BY <1>1, <1>2, <1>3, <1>4 DEF Strides

\* Two elements of one string that lie at one place come from one place.
LEMMA PlacesTogether ==
  ASSUME NEW b, b \in Int, NEW c, c \in Int, NEW s \in Strides,
         NEW i, i \in Nat, NEW k, k \in Nat, Place(b, s, i) = Place(b, s, k)
  PROVE  Place(c, s, i) = Place(c, s, k)
<1>1. CASE s = 1 BY <1>1 DEF Place
<1>2. CASE s = -1 BY <1>2 DEF Place
<1>3. CASE s = 2 BY <1>3 DEF Place
<1>4. CASE s = -2 BY <1>4 DEF Place
<1> QED BY <1>1, <1>2, <1>3, <1>4 DEF Strides

\* The words of a string do not lie across each other.
LEMMA PlacesEven ==
  ASSUME NEW b, b \in Int, NEW s \in {2, -2}, NEW i, i \in Nat, NEW k, k \in Nat
  PROVE  Place(b, s, i) # Place(b, s, k) + 1
<1>1. CASE s = 2 BY <1>1 DEF Place
<1>2. CASE s = -2 BY <1>2 DEF Place
<1> QED BY <1>1, <1>2
-----------------------------------------------------------------------------
\* What begun records of a string instruction, and the bytes of its elements.
BegunTyped ==
  /\ begun.op \in StringOps /\ begun.reg \in Registers /\ IsMemory(begun.data)
  /\ begun.d \in BOOLEAN /\ begun.rep \in BOOLEAN

LEMMA StrideType ==
  ASSUME BegunTyped
  PROVE  Stride \in Strides /\ (begun.op = \ha5 => Stride \in {2, -2})
<1>1. CASE begun.op = \ha5 BY <1>1 DEF BegunTyped, Stride, Strides
<1>2. CASE begun.op # \ha5 BY <1>2 DEF BegunTyped, Stride, Strides
<1> QED BY <1>1, <1>2

LEMMA ElementPlaces ==
  ASSUME NEW i
  PROVE  TargetAt(i) = Place(begun.reg[DI], Stride, i) /\ SourceAt(i) = Place(begun.reg[SI], Stride, i)
BY DEF TargetAt, SourceAt, Place

LEMMA ElementType ==
  ASSUME BegunTyped, NEW i, i \in Nat
  PROVE  TargetAt(i) \in Word /\ SourceAt(i) \in Word
<1>1. Stride \in Strides BY StrideType
<1>2. begun.reg[DI] \in Int /\ begun.reg[SI] \in Int
      BY NamedRegisters, WordIsInt DEF BegunTyped, Registers
<1> QED BY <1>1, <1>2, ElementPlaces, PlaceIsWord

\* Two elements stored to one place are taken from one place.
LEMMA ElementsTogether ==
  ASSUME BegunTyped, NEW i, i \in Nat, NEW k, k \in Nat, TargetAt(i) = TargetAt(k)
  PROVE  SourceAt(i) = SourceAt(k)
<1>1. Stride \in Strides BY StrideType
<1>2. begun.reg[DI] \in Int /\ begun.reg[SI] \in Int
      BY NamedRegisters, WordIsInt DEF BegunTyped, Registers
<1> QED BY <1>1, <1>2, ElementPlaces, PlacesTogether

LEMMA WordsApart ==
  ASSUME BegunTyped, begun.op = \ha5, NEW i, i \in Nat, NEW k, k \in Nat
  PROVE  TargetAt(i) # TargetAt(k) + 1
<1>1. Stride \in {2, -2} BY StrideType
<1>2. begun.reg[DI] \in Int BY NamedRegisters, WordIsInt DEF BegunTyped, Registers
<1> QED BY <1>1, <1>2, ElementPlaces, PlacesEven

LEMMA NoElements == Targets(0) = {} /\ Sources(0) = {}
<1>1. 0 .. 0 - 1 = {} OBVIOUS
<1> QED BY <1>1 DEF Targets, Sources

LEMMA ElementsGrow ==
  ASSUME NEW k, k \in Nat, NEW a
  PROVE  /\ a \in Targets(k + 1) <=> a \in Targets(k) \/ a \in BytesOf(TargetAt(k))
         /\ a \in Sources(k + 1) <=> a \in Sources(k) \/ a \in BytesOf(SourceAt(k))
<1>1. \A j : a \in Targets(j) <=> \E i \in 0 .. j - 1 : a \in BytesOf(TargetAt(i)) BY DEF Targets
<1>2. \A j : a \in Sources(j) <=> \E i \in 0 .. j - 1 : a \in BytesOf(SourceAt(i)) BY DEF Sources
<1>3. \A i : i \in 0 .. (k + 1) - 1 <=> i \in 0 .. k - 1 \/ i = k OBVIOUS
<1> QED BY <1>1, <1>2, <1>3
-----------------------------------------------------------------------------
\* What memory m holds once k elements have been handled.
Copies == begun.op \in {\ha4, \ha5}
OnlyCompares == begun.op \in {\ha6, \hae}
OthersKept(m, k) == \A a : OnlyCompares \/ a \notin Targets(k) => At(m, a) = At(begun.data, a)
Copied(m, k) ==
  Targets(k) \cap Sources(k) = {} =>
    \A i \in 0 .. k - 1, j \in 0 .. 1 :
      (j = 1 => begun.op = \ha5) => At(m, TargetAt(i) + j) = At(begun.data, SourceAt(i) + j)
Filled(m, k) == \A a \in Targets(k) : At(m, a) = LowByte(begun.reg[AX])
MemoryAt(m, k) ==
  /\ OthersKept(m, k)
  /\ Copies => Copied(m, k)
  /\ begun.op = \haa => Filled(m, k)

LEMMA StoreSets == ASSUME NEW m, NEW b, NEW v PROVE At(Store(m, b, v), b) = v
BY DEF At, Store

LEMMA HalvesOfPair == \A lo, hi \in Byte : LowByte(Pair(lo, hi)) = lo /\ HighByte(Pair(lo, hi)) = hi
BY InByte DEF LowByte, HighByte, Pair

\* What one element changes and what it copies.
ElementStored(m, n, k) ==
  /\ \A a : a \notin BytesOf(TargetAt(k)) => At(n, a) = At(m, a)
  /\ Copies => \A j \in 0 .. 1 :
       (j = 1 => begun.op = \ha5) => At(n, TargetAt(k) + j) = At(m, SourceAt(k) + j)
  /\ begun.op = \haa => At(n, TargetAt(k)) = LowByte(begun.reg[AX])
  /\ OnlyCompares => n = m

LEMMA OthersKeptNext ==
  ASSUME NEW m, NEW n, NEW k, k \in Nat, OthersKept(m, k), ElementStored(m, n, k)
  PROVE  OthersKept(n, k + 1)
<1>1. CASE OnlyCompares BY <1>1 DEF OthersKept, ElementStored
<1>2. CASE ~OnlyCompares
  <2>1. ASSUME NEW a, a \notin Targets(k + 1) PROVE At(n, a) = At(begun.data, a)
    <3>1. a \notin Targets(k) /\ a \notin BytesOf(TargetAt(k)) BY <2>1, ElementsGrow
    <3> QED BY <3>1 DEF OthersKept, ElementStored
  <2> QED BY <1>2, <2>1 DEF OthersKept
<1> QED BY <1>1, <1>2

LEMMA FilledNext ==
  ASSUME NEW m, NEW n, NEW k, k \in Nat, begun.op = \haa, Filled(m, k), ElementStored(m, n, k)
  PROVE  Filled(n, k + 1)
<1>1. ASSUME NEW a \in Targets(k + 1) PROVE At(n, a) = LowByte(begun.reg[AX])
  <2>1. CASE a \in BytesOf(TargetAt(k))
    <3>1. a = TargetAt(k) BY <2>1 DEF BytesOf
    <3> QED BY <3>1 DEF ElementStored
  <2>2. CASE a \notin BytesOf(TargetAt(k))
    <3>1. a \in Targets(k) BY <1>1, <2>2, ElementsGrow
    <3> QED BY <2>2, <3>1 DEF Filled, ElementStored
  <2> QED BY <2>1, <2>2
<1> QED BY <1>1 DEF Filled

LEMMA CopiedNext ==
  ASSUME BegunTyped, NEW m, NEW n, NEW k, k \in Nat, Copies,
         OthersKept(m, k), Copied(m, k), ElementStored(m, n, k)
  PROVE  Copied(n, k + 1)
<1> SUFFICES ASSUME Targets(k + 1) \cap Sources(k + 1) = {}
             PROVE  \A i \in 0 .. (k + 1) - 1, j \in 0 .. 1 :
                      (j = 1 => begun.op = \ha5)
                      => At(n, TargetAt(i) + j) = At(begun.data, SourceAt(i) + j)
  BY DEF Copied
<1>1. Targets(k) \cap Sources(k) = {} BY ElementsGrow
<1>2. ASSUME NEW j \in 0 .. 1, j = 1 => begun.op = \ha5
      PROVE  At(n, TargetAt(k) + j) = At(begun.data, SourceAt(k) + j)
  <2>1. At(n, TargetAt(k) + j) = At(m, SourceAt(k) + j) BY <1>2 DEF ElementStored
  <2>2. SourceAt(k) + j \in BytesOf(SourceAt(k))
    <3>1. SourceAt(k) \in Int BY ElementType, WordIsInt
    <3>2. SourceAt(k) + 0 = SourceAt(k) BY <3>1
    <3> QED BY <1>2, <3>2 DEF BytesOf
  <2>3. SourceAt(k) + j \in Sources(k + 1) BY <2>2, ElementsGrow
  <2>4. SourceAt(k) + j \notin Targets(k + 1) BY <2>3
  <2>5. SourceAt(k) + j \notin Targets(k) BY <2>4, ElementsGrow
  <2> QED BY <2>1, <2>5 DEF OthersKept
<1>3. ASSUME NEW i \in 0 .. k - 1, NEW j \in 0 .. 1, j = 1 => begun.op = \ha5
      PROVE  At(n, TargetAt(i) + j) = At(begun.data, SourceAt(i) + j)
  <2>1. i \in Nat OBVIOUS
  <2>2. CASE TargetAt(i) = TargetAt(k)
    <3>1. SourceAt(i) = SourceAt(k) BY <2>1, <2>2, ElementsTogether
    <3> QED BY <1>2, <1>3, <2>2, <3>1
  <2>3. CASE TargetAt(i) # TargetAt(k)
    <3> DEFINE t == TargetAt(i)
               u == TargetAt(k)
    <3>1. t \in Int /\ u \in Int BY <2>1, ElementType, WordIsInt
    <3>2. begun.op = \ha5 => t # u + 1 /\ u # t + 1 BY <2>1, WordsApart
    <3>3. t # u BY <2>3
    <3> HIDE DEF t, u
    <3>4. t + j \notin BytesOf(u) BY <1>3, <3>1, <3>2, <3>3 DEF BytesOf
    <3>5. At(n, t + j) = At(m, t + j) BY <3>4 DEF ElementStored, u
    <3>6. At(m, t + j) = At(begun.data, SourceAt(i) + j) BY <1>1, <1>3 DEF Copied, t
    <3> QED BY <3>5, <3>6 DEF t
  <2> QED BY <2>2, <2>3
<1>4. \A i : i \in 0 .. (k + 1) - 1 <=> i \in 0 .. k - 1 \/ i = k OBVIOUS
<1> QED BY <1>2, <1>3, <1>4

LEMMA MemoryNext ==
  ASSUME BegunTyped, NEW m, NEW n, NEW k, k \in Nat, MemoryAt(m, k), ElementStored(m, n, k)
  PROVE  MemoryAt(n, k + 1)
BY OthersKeptNext, CopiedNext, FilledNext DEF MemoryAt
-----------------------------------------------------------------------------
\* The registers once k elements have been handled, and that no test has stopped
\* the loop before.
RegistersAt(r, k) ==
  /\ r[DI] = TargetAt(k)
  /\ begun.op \in {\ha4, \ha5, \ha6} => r[SI] = SourceAt(k)
  /\ begun.rep => r[CX] = begun.reg[CX] - k
  /\ r[AX] = begun.reg[AX]
NoneStops(k) == OnlyCompares /\ begun.rep => \A i \in 0 .. k - 1 : ~Stops(i)

Handled(k) == k < Limit /\ RegistersAt(reg, k) /\ MemoryAt(data, k) /\ NoneStops(k)

\* While the loop of a string instruction runs, some elements have been handled.
InString ==
  stringop # 0 =>
    /\ BegunTyped
    /\ begun.op = stringop /\ begun.d = flags.d
    /\ begun.rep = option.active /\ begun.z = option.z
    /\ \E k \in Nat : Handled(k)

LEMMA LimitType == ASSUME BegunTyped PROVE Limit \in Int
BY NamedRegisters, WordIsInt DEF BegunTyped, Registers, Limit

LEMMA StringBegins ==
  ASSUME TypeOK, StringStart, Beginning, stringop' # 0
  PROVE  InString'
<1>1. Ready /\ Op \in StringOps BY DEF StringStart
<1>2. begun' = [op |-> Op, reg |-> reg, data |-> data, d |-> flags.d,
                rep |-> option.active, z |-> option.z]
      BY <1>1 DEF Beginning
<1>3. /\ begun'.op = Op /\ begun'.reg = reg /\ begun'.data = data /\ begun'.d = flags.d
      /\ begun'.rep = option.active /\ begun'.z = option.z
      BY <1>2
<1>4. stringop' = Op /\ option' = option /\ ~(option.active /\ reg[CX] = 0)
      BY <1>1 DEF StringStart, Ready
<1>5. reg' = reg /\ flags' = flags /\ data' = data BY DEF StringStart
<1>6. /\ reg \in Registers /\ IsMemory(data) /\ flags.d \in BOOLEAN /\ option.active \in BOOLEAN
      BY TypeFacts DEF Flags
<1>7. BegunTyped' BY <1>1, <1>3, <1>6 DEF BegunTyped
<1>8. Stride' \in Strides
  <2>1. BegunTyped => Stride \in Strides BY StrideType
  <2>2. (BegunTyped => Stride \in Strides)' BY StrideType, PTL
  <2> QED BY <1>7, <2>2
<1>9. TargetAt(0)' = reg[DI] /\ SourceAt(0)' = reg[SI]
  <2>1. reg[DI] \in Word /\ reg[SI] \in Word BY RegisterIsWord, NamedRegisters
  <2>2. Place(reg[DI], Stride', 0) = reg[DI] /\ Place(reg[SI], Stride', 0) = reg[SI]
        BY <1>8, <2>1, PlaceZero
  <2> QED BY <1>3, <2>2 DEF TargetAt, SourceAt, Place
<1>10. Handled(0)'
  <2>1. 0 < Limit'
    <3>1. option.active => reg[CX] \in Int /\ 0 <= reg[CX] /\ reg[CX] # 0
      BY <1>4, RegisterIsWord, NamedRegisters, InWord
    <3> QED BY <1>3, <3>1 DEF Limit
  <2>2. RegistersAt(reg, 0)'
    <3>1. reg[CX] \in Int BY RegisterIsWord, NamedRegisters
    <3>2. reg[CX] = reg[CX] - 0 BY <3>1
    <3> QED BY <1>3, <1>5, <1>9, <3>2 DEF RegistersAt
  <2>3. (Targets(0) = {} /\ Sources(0) = {})' BY NoElements, PTL
  <2>4. MemoryAt(data, 0)'
    <3>1. OthersKept(data, 0)' BY <1>3, <1>5 DEF OthersKept
    <3>2. Copied(data, 0)'
      <4>1. 0 .. 0 - 1 = {} OBVIOUS
      <4> QED BY <4>1 DEF Copied
    <3>3. Filled(data, 0)' BY <2>3 DEF Filled
    <3> QED BY <3>1, <3>2, <3>3 DEF MemoryAt
  <2>5. NoneStops(0)'
    <3>1. 0 .. 0 - 1 = {} OBVIOUS
    <3> QED BY <3>1 DEF NoneStops
  <2> QED BY <2>1, <2>2, <2>4, <2>5 DEF Handled
<1>11. \E k \in Nat : Handled(k)' BY <1>10
<1> QED BY <1>3, <1>4, <1>5, <1>7, <1>11 DEF InString
-----------------------------------------------------------------------------
\* One turn of the loop, from k elements to k + 1.
LEMMA TurnStores ==
  ASSUME TypeOK, BegunTyped, begun.op = stringop, NEW k \in Nat, RegistersAt(reg, k), StringElement
  PROVE  ElementStored(data, data', k)
<1> DEFINE b == TargetAt(k)
           c == SourceAt(k)
<1>1. reg[DI] = b /\ (begun.op \in {\ha4, \ha5, \ha6} => reg[SI] = c) /\ reg[AX] = begun.reg[AX]
      BY DEF RegistersAt
<1>2. b \in Int /\ c \in Int BY ElementType, WordIsInt
<1> HIDE DEF b, c
<1>3. b + 0 = b /\ c + 0 = c BY <1>2
<1>4. CASE begun.op = \ha4
  <2>1. data' = Store(data, b, At(data, c)) BY <1>1, <1>4 DEF StringElement
  <2>2. \A a : a # b => At(data', a) = At(data, a) BY <2>1, StoreKeeps
  <2>3. At(data', b) = At(data, c) BY <2>1, StoreSets
  <2>4. BytesOf(b) = {b} BY <1>4 DEF BytesOf
  <2>5. ~OnlyCompares /\ begun.op # \haa /\ begun.op # \ha5 BY <1>4 DEF OnlyCompares
  <2> QED BY <1>3, <2>2, <2>3, <2>4, <2>5 DEF ElementStored, b, c
<1>5. CASE begun.op = \ha5
  <2> DEFINE lo == At(data, c)
             hi == At(data, c + 1)
  <2>1. data' = StoreWord(data, b, ReadData(1, c)) BY <1>1, <1>5 DEF StringElement
  <2>2. lo \in Byte /\ hi \in Byte BY TypeFacts, AtByte
  <2>3. LowByte(ReadData(1, c)) = lo /\ HighByte(ReadData(1, c)) = hi
        BY <2>2, HalvesOfPair DEF ReadData
  <2>4. data' = Store(Store(data, b, lo), b + 1, hi) BY <2>1, <2>3 DEF StoreWord
  <2> HIDE DEF lo, hi
  <2>5. \A a : a # b /\ a # b + 1 => At(data', a) = At(data, a) BY <2>4, StoreTwoKeeps
  <2>6. At(data', b + 1) = hi BY <2>4, StoreSets
  <2>7. At(data', b) = lo
    <3>1. b # b + 1 BY <1>2
    <3>2. At(data', b) = At(Store(data, b, lo), b) BY <2>4, <3>1, StoreKeeps
    <3> QED BY <3>2, StoreSets
  <2>8. BytesOf(b) = {b, b + 1} BY <1>5 DEF BytesOf
  <2>9. ~OnlyCompares /\ begun.op # \haa BY <1>5 DEF OnlyCompares
  <2> QED BY <1>3, <2>5, <2>6, <2>7, <2>8, <2>9 DEF ElementStored, b, c, lo, hi
<1>6. CASE begun.op = \haa
  <2> DEFINE v == LowByte(begun.reg[AX])
  <2>1. data' = Store(data, b, v) BY <1>1, <1>6 DEF StringElement
  <2> HIDE DEF v
  <2>2. \A a : a # b => At(data', a) = At(data, a) BY <2>1, StoreKeeps
  <2>3. At(data', b) = v BY <2>1, StoreSets
  <2>4. BytesOf(b) = {b} BY <1>6 DEF BytesOf
  <2>5. ~OnlyCompares /\ ~Copies BY <1>6 DEF OnlyCompares, Copies
  <2> QED BY <2>2, <2>3, <2>4, <2>5 DEF ElementStored, b, v
<1>7. CASE begun.op \in {\ha6, \hae}
  <2>1. data' = data BY <1>7 DEF StringElement
  <2>2. ~Copies /\ begun.op # \haa BY <1>7 DEF Copies
  <2> QED BY <2>1, <2>2 DEF ElementStored
<1> QED BY <1>4, <1>5, <1>6, <1>7 DEF BegunTyped, StringOps

LEMMA WithWordMoved ==
  ASSUME NEW r, NEW i, NEW p, NEW d
  PROVE  WithWord(r, i, p + d) = [r EXCEPT ![i] = MovedBy(p, d)]
BY DEF WithWord, MovedBy

LEMMA TurnMoves ==
  ASSUME TypeOK, BegunTyped, begun.op = stringop, begun.d = flags.d, begun.rep = option.active,
         NEW k \in Nat, RegistersAt(reg, k), k < Limit, StringElement
  PROVE  RegistersAt(reg', k + 1)
<1> DEFINE b == begun.reg[DI]
           c == begun.reg[SI]
           s == Stride
<1>1. b \in Int /\ c \in Int BY NamedRegisters, WordIsInt DEF BegunTyped, Registers
<1>2. s \in Strides BY StrideType
<1>3. Delta = s
  <2>1. begun.d \in BOOLEAN /\ begun.op \in StringOps BY DEF BegunTyped
  <2>2. Size = 1 \/ Size = 2 BY DEF Size
  <2> QED BY <2>1, <2>2 DEF Delta, Size, Stride
<1>4. TargetAt(k) = Place(b, s, k) /\ TargetAt(k + 1) = Place(b, s, k + 1)
      BY ElementPlaces
<1>5. SourceAt(k) = Place(c, s, k) /\ SourceAt(k + 1) = Place(c, s, k + 1)
      BY ElementPlaces
<1> HIDE DEF b, c, s
<1>6. MovedBy(reg[DI], Delta) = TargetAt(k + 1)
  <2>1. reg[DI] = Place(b, s, k) BY <1>4 DEF RegistersAt
  <2>2. MovedBy(Place(b, s, k), s) = Place(b, s, k + 1) BY <1>1, <1>2, PlaceStep
  <2> QED BY <1>3, <1>4, <2>1, <2>2
<1>7. UsesSI => MovedBy(reg[SI], Delta) = SourceAt(k + 1)
  <2>1. UsesSI => reg[SI] = Place(c, s, k) BY <1>5 DEF RegistersAt, UsesSI
  <2>2. MovedBy(Place(c, s, k), s) = Place(c, s, k + 1) BY <1>1, <1>2, PlaceStep
  <2> QED BY <1>3, <1>5, <2>1, <2>2
<1>8. reg \in Registers BY TypeFacts
<1> DEFINE r == IF UsesSI THEN WithWord(reg, SI, reg[SI] + Delta) ELSE reg
<1>9. /\ r \in [0 .. 7 -> Int] /\ r[DI] = reg[DI] /\ r[CX] = reg[CX] /\ r[AX] = reg[AX]
      /\ UsesSI => r[SI] = SourceAt(k + 1)
  <2>1. SourceAt(k + 1) \in Int BY ElementType, WordIsInt
  <2>2. \A i \in 0 .. 7 : reg[i] \in Int BY <1>8, WordIsInt DEF Registers
  <2>3. UsesSI => r = [reg EXCEPT ![SI] = SourceAt(k + 1)] BY <1>7, WithWordMoved
  <2>4. ~UsesSI => r = reg OBVIOUS
  <2> HIDE DEF r
  <2>5. CASE UsesSI BY <1>8, <2>1, <2>2, <2>3, <2>5 DEF Registers, DI, CX, AX, SI
  <2>6. CASE ~UsesSI BY <1>8, <2>2, <2>4, <2>6 DEF Registers
  <2> QED BY <2>5, <2>6
<1>10. Moved = [r EXCEPT ![DI] = TargetAt(k + 1)]
  <2>1. Moved = WithWord(r, DI, reg[DI] + Delta) BY DEF Moved
  <2> HIDE DEF r
  <2>2. Moved = [r EXCEPT ![DI] = MovedBy(reg[DI], Delta)] BY <2>1, WithWordMoved
  <2> QED BY <1>6, <2>2
<1>11. /\ Moved \in [0 .. 7 -> Int] /\ Moved[DI] = TargetAt(k + 1) /\ Moved[CX] = reg[CX]
       /\ Moved[AX] = reg[AX] /\ (UsesSI => Moved[SI] = SourceAt(k + 1))
  <2>1. TargetAt(k + 1) \in Int BY ElementType, WordIsInt
  <2> DEFINE t == TargetAt(k + 1)
             q == SourceAt(k + 1)
  <2>2. t \in Int /\ Moved = [r EXCEPT ![DI] = t] BY <1>10, <2>1
  <2>3. UsesSI => r[SI] = q BY <1>9
  <2>4. r \in [0 .. 7 -> Int] /\ r[CX] = reg[CX] /\ r[AX] = reg[AX] BY <1>9
  <2> HIDE DEF t, q
  <2>5. Moved \in [0 .. 7 -> Int] /\ Moved[DI] = t BY <2>2, <2>4 DEF DI
  <2>6. Moved[CX] = r[CX] /\ Moved[AX] = r[AX] /\ Moved[SI] = r[SI]
        BY <2>2, <2>4 DEF DI, CX, AX, SI
  <2> QED BY <2>3, <2>4, <2>5, <2>6 DEF t, q
<1>12. UsesSI <=> begun.op \in {\ha4, \ha5, \ha6} BY DEF UsesSI
<1>13. reg' = Counted BY DEF StringElement
<1>14. CASE ~begun.rep
  <2>1. reg' = Moved BY <1>13, <1>14 DEF Counted
  <2> QED BY <1>11, <1>12, <1>14, <2>1 DEF RegistersAt
<1>15. CASE begun.rep
  <2> DEFINE n == begun.reg[CX]
  <2>1. n \in Int /\ 0 <= n /\ n < 65536
        BY NamedRegisters, InWord DEF BegunTyped, Registers
  <2>2. k < n BY <1>15 DEF Limit
  <2>3. reg[CX] = n - k BY <1>15 DEF RegistersAt
  <2> HIDE DEF n
  <2>4. (reg[CX] - 1) % 65536 = n - (k + 1) BY <2>1, <2>2, <2>3
  <2>5. reg' = [Moved EXCEPT ![CX] = n - (k + 1)]
    <3> DEFINE v == (reg[CX] - 1) % 65536
    <3>1. reg' = [Moved EXCEPT ![CX] = v] BY <1>13, <1>15 DEF Counted, WithWord
    <3>2. v = n - (k + 1) BY <2>4
    <3> HIDE DEF v
    <3> QED BY <3>1, <3>2
  <2>6. /\ reg'[CX] = n - (k + 1) /\ reg'[DI] = Moved[DI] /\ reg'[SI] = Moved[SI]
        /\ reg'[AX] = Moved[AX]
        BY <1>11, <2>5 DEF DI, CX, AX, SI
  <2> QED BY <1>11, <1>12, <2>6 DEF RegistersAt, n
<1> QED BY <1>14, <1>15 DEF BegunTyped
-----------------------------------------------------------------------------
\* What a comparing turn leaves in Z and C: the relation of the k-th operands.
LEMMA TurnCompares ==
  ASSUME TypeOK, BegunTyped, begun.op = stringop, NEW k \in Nat,
         RegistersAt(reg, k), MemoryAt(data, k), OnlyCompares, StringElement
  PROVE  flags'.z = (Left(k) = Right(k)) /\ flags'.c = (Left(k) < Right(k))
<1> DEFINE x == IF stringop = \ha6 THEN At(data, reg[SI]) ELSE LowByte(reg[AX])
           y == At(data, reg[DI])
<1>1. x = Left(k)
  <2>1. CASE stringop = \ha6
    <3>1. reg[SI] = SourceAt(k) BY <2>1 DEF RegistersAt
    <3>2. At(data, SourceAt(k)) = At(begun.data, SourceAt(k)) BY DEF MemoryAt, OthersKept
    <3> QED BY <2>1, <3>1, <3>2 DEF Left
  <2>2. CASE stringop # \ha6 BY <2>2 DEF RegistersAt, Left
  <2> QED BY <2>1, <2>2
<1>2. y = Right(k)
  <2>1. reg[DI] = TargetAt(k) BY DEF RegistersAt
  <2>2. At(data, TargetAt(k)) = At(begun.data, TargetAt(k)) BY DEF MemoryAt, OthersKept
  <2> QED BY <2>1, <2>2 DEF Right
<1>3. x \in Byte /\ y \in Byte
  <2>1. IsMemory(data) BY TypeFacts
  <2>2. LowByte(reg[AX]) \in Byte BY RegisterIsWord, NamedRegisters, HalvesAreBytes
  <2> QED BY <2>1, <2>2, AtByte
<1>4. SetZSOC(Sub(x, y, 256)) BY DEF StringElement, Compares, OnlyCompares, ElementCompared
<1> HIDE DEF x, y
<1>5. x \in Values(256) /\ y \in Values(256) BY <1>3 DEF Byte
<1>6. 256 \in Widths BY DEF Widths
<1>7. Sub(x, y, 256).c = (x < y) /\ Sub(x, y, 256).z = (x = y) BY <1>5, <1>6, ComparisonFlags
<1> DEFINE d == Sub(x, y, 256)
<1>8. SetZSOC(d) /\ d.c = (x < y) /\ d.z = (x = y) BY <1>4, <1>7
<1> HIDE DEF d
<1>9. flags'.z = (x = y) /\ flags'.c = (x < y) BY <1>8 DEF SetZSOC
<1> QED BY <1>1, <1>2, <1>9

\* Whether the turn was the last, as the manual counts.
LEMMA LastTurn ==
  ASSUME TypeOK, BegunTyped, begun.op = stringop, begun.rep = option.active,
         begun.z = option.z, NEW k \in Nat, Handled(k), StringElement
  PROVE  IF LoopsAgain(flags'.z) THEN k + 1 < Limit /\ NoneStops(k + 1) ELSE Done = k + 1
<1>1. RegistersAt(reg, k) /\ MemoryAt(data, k) /\ k < Limit /\ NoneStops(k) BY DEF Handled
<1>2. Limit \in Int BY LimitType
<1>3. begun.rep => (reg[CX] = Limit - k)
  <2>1. begun.rep => reg[CX] = begun.reg[CX] - k BY <1>1 DEF RegistersAt
  <2> QED BY <2>1 DEF Limit
<1>4. begun.rep => (reg[CX] # 1 <=> k + 1 < Limit)
  <2>1. begun.rep => (Limit - k # 1 <=> k + 1 < Limit) BY <1>1, <1>2
  <2> QED BY <1>3, <2>1
<1>5. OnlyCompares => (Stops(k) <=> ~(option.z = 1 <=> flags'.z))
  <2> SUFFICES ASSUME OnlyCompares PROVE Stops(k) <=> ~(option.z = 1 <=> flags'.z) OBVIOUS
  <2>1. flags'.z = (Left(k) = Right(k)) BY <1>1, TurnCompares
  <2> QED BY <2>1 DEF Stops
<1>6. Compares <=> OnlyCompares BY DEF Compares, OnlyCompares
<1>7. ~begun.rep => k = 0 /\ Limit = 1
  <2>1. ~begun.rep => Limit = 1 BY DEF Limit
  <2> QED BY <1>1, <2>1
<1>8. CASE LoopsAgain(flags'.z)
  <2>1. begun.rep /\ reg[CX] # 1 /\ (OnlyCompares => ~Stops(k))
        BY <1>5, <1>6, <1>8 DEF LoopsAgain
  <2>2. k + 1 < Limit BY <1>4, <2>1
  <2>3. \A i : i \in 0 .. (k + 1) - 1 <=> i \in 0 .. k - 1 \/ i = k OBVIOUS
  <2>4. NoneStops(k + 1) BY <1>1, <2>1, <2>3 DEF NoneStops
  <2> QED BY <1>8, <2>2, <2>4
<1>9. CASE ~LoopsAgain(flags'.z)
  <2>1. ~begun.rep \/ ~(k + 1 < Limit) \/ (OnlyCompares /\ Stops(k))
        BY <1>4, <1>5, <1>6, <1>9 DEF LoopsAgain, BegunTyped
  <2>2. CASE ~OnlyCompares
    <3>1. k + 1 = Limit BY <1>1, <1>2, <1>7, <2>1, <2>2
    <3> QED BY <1>9, <2>2, <3>1 DEF Done, OnlyCompares
  <2>3. CASE OnlyCompares
    <3> DEFINE stopping == {i \in 0 .. Limit - 1 : begun.rep /\ Stops(i)}
    <3>1. Done = IF stopping = {} THEN Limit
                 ELSE 1 + CHOOSE i \in stopping : \A j \in stopping : i <= j
          BY <2>3 DEF Done, OnlyCompares, Looked
    <3>2. \A i \in stopping : i \in Int /\ k <= i
      <4> SUFFICES ASSUME NEW i \in stopping PROVE i \in Int /\ k <= i OBVIOUS
      <4>1. i \in Int /\ 0 <= i /\ begun.rep /\ Stops(i) BY <1>2
      <4>2. i \notin 0 .. k - 1 BY <1>1, <2>3, <4>1 DEF NoneStops
      <4> QED BY <4>1, <4>2
    <3>3. CASE begun.rep /\ Stops(k)
      <4>1. k \in stopping BY <1>1, <1>2, <3>3
      <4> HIDE DEF stopping
      <4>2. (CHOOSE i \in stopping : \A j \in stopping : i <= j) = k
        <5> DEFINE c == CHOOSE i \in stopping : \A j \in stopping : i <= j
        <5>1. \E i \in stopping : \A j \in stopping : i <= j BY <3>2, <4>1
        <5>2. c \in stopping /\ \A j \in stopping : c <= j BY <5>1
        <5> HIDE DEF c
        <5>3. c = k BY <3>2, <4>1, <5>2
        <5> QED BY <5>3 DEF c
      <4>3. Done = 1 + k BY <3>1, <4>1, <4>2
      <4> QED BY <1>9, <4>3
    <3>4. CASE ~(begun.rep /\ Stops(k))
      <4>1. k + 1 = Limit BY <1>1, <1>2, <1>7, <2>1, <3>4
      <4>2. stopping = {}
        <5>1. \A i \in stopping : i <= k /\ begun.rep /\ Stops(i) BY <1>2, <4>1
        <5> HIDE DEF stopping
        <5>2. \A i \in stopping : i = k BY <3>2, <5>1
        <5> QED BY <3>4, <5>1, <5>2
      <4> HIDE DEF stopping
      <4> QED BY <1>9, <3>1, <4>1, <4>2
    <3> QED BY <3>3, <3>4
  <2> QED BY <2>2, <2>3
<1> QED BY <1>8, <1>9
-----------------------------------------------------------------------------
\* begun stays while the loop runs, and with it all that is said in its terms.
LEMMA BegunStays ==
  ASSUME begun' = begun, NEW j \in Nat,
         j < Limit, RegistersAt(reg', j), MemoryAt(data', j), NoneStops(j)
  PROVE  Handled(j)'
<1>1. Stride' = Stride /\ Limit' = Limit BY DEF Stride, Limit
<1>2. \A i : (TargetAt(i))' = TargetAt(i) BY <1>1 DEF TargetAt
<1>3. \A i : (SourceAt(i))' = SourceAt(i) BY <1>1 DEF SourceAt
<1>4. \A a : (BytesOf(a))' = BytesOf(a) BY DEF BytesOf
<1>5. (Targets(j))' = Targets(j) BY <1>2, <1>4 DEF Targets
<1>6. (Sources(j))' = Sources(j) BY <1>3, <1>4 DEF Sources
<1>7. Copies' = Copies /\ OnlyCompares' = OnlyCompares BY DEF Copies, OnlyCompares
<1>8. \A i : (Stops(i))' = Stops(i)
  <2>1. \A i : (Left(i))' = Left(i) /\ (Right(i))' = Right(i) BY <1>2, <1>3 DEF Left, Right
  <2> QED BY <2>1 DEF Stops
<1>9. RegistersAt(reg, j)' BY <1>2, <1>3 DEF RegistersAt
<1>10. OthersKept(data', j) => OthersKept(data, j)' BY <1>5, <1>7 DEF OthersKept
<1>11. Copied(data', j) => Copied(data, j)' BY <1>2, <1>3, <1>5, <1>6 DEF Copied
<1>12. Filled(data', j) => Filled(data, j)' BY <1>5 DEF Filled
<1>13. MemoryAt(data, j)' BY <1>7, <1>10, <1>11, <1>12 DEF MemoryAt
<1>14. NoneStops(j)' BY <1>7, <1>8 DEF NoneStops
<1> QED BY <1>1, <1>9, <1>13, <1>14 DEF Handled

\* While the loop runs, nothing else does.
LEMMA OnlyTurns ==
  ASSUME [Next]_vars, stringop # 0
  PROVE  StringElement \/ UNCHANGED <<reg, flags, data, option, stringop>>
<1>1. CASE Arithmetic
  BY <1>1 DEF Arithmetic, AluReg, AluAcc, AluImm, IncDecReg, IncDecEA, TestReg, TestAcc, TestImm,
              Not, Negate, Multiply, Divide, SignedDivide, DivideCrash, Shift, Dividing,
              Operand, Ready
<1>2. CASE Transfer
  BY <1>2 DEF Transfer, MovReg, MovAcc, MovImmReg, MovImmEA, Lea, XchgEA, XchgAcc, Convert,
              Direction, PushReg, PushEA, PopReg, PopEA, Operand, Ready
<1>3. CASE Control
  BY <1>3 DEF Control, JumpIf, Loop, JumpIfCXZero, Jump, JumpEA, Call, CallEA, Ret, Operand, Ready
<1>4. CASE String BY <1>4 DEF String, Repeat, StringStart, Ready
<1>5. CASE SystemCall \/ ExecCall \/ LastCall
  BY <1>5 DEF SystemCall, ExecCall, LastCall, Interrupting, Ready
<1>6. CASE Ending \/ UNCHANGED vars
  BY <1>6 DEF Ending, Refuse, Overrun, Stopped, Ready, vars
<1> QED BY <1>1, <1>2, <1>3, <1>4, <1>5, <1>6 DEF Next

\* Only the first pass of a string instruction starts the loop.
LEMMA OnlyStarts ==
  ASSUME [Next]_vars, stringop = 0, stringop' # 0
  PROVE  StringStart
<1>1. CASE Arithmetic
  BY <1>1 DEF Arithmetic, AluReg, AluAcc, AluImm, IncDecReg, IncDecEA, TestReg, TestAcc, TestImm,
              Not, Negate, Multiply, Divide, SignedDivide, DivideCrash, Shift, PassKeepingFlags,
              Pass
<1>2. CASE Transfer
  BY <1>2 DEF Transfer, MovReg, MovAcc, MovImmReg, MovImmEA, Lea, XchgEA, XchgAcc, Convert,
              Direction, PushReg, PushEA, PopReg, PopEA, PassKeepingFlags, Pass
<1>3. CASE Control
  BY <1>3 DEF Control, JumpIf, Loop, JumpIfCXZero, Jump, JumpEA, Call, CallEA, Ret,
              PassKeepingFlags, Pass
<1>4. CASE String BY <1>4 DEF String, Repeat, StringElement
<1>5. CASE SystemCall \/ ExecCall \/ LastCall BY <1>5 DEF SystemCall, ExecCall, LastCall
<1>6. CASE Ending \/ UNCHANGED vars BY <1>6 DEF Ending, Refuse, Overrun, Stopped, vars
<1> QED BY <1>1, <1>2, <1>3, <1>4, <1>5, <1>6 DEF Next

\* What a turn makes of k handled elements.
LEMMA TurnHandles ==
  ASSUME TypeOK, InString, StringElement
  PROVE  \E k \in Nat :
           /\ RegistersAt(reg', k + 1) /\ MemoryAt(data', k + 1)
           /\ OnlyCompares => /\ flags'.z = (Left(k) = Right(k))
                              /\ flags'.c = (Left(k) < Right(k))
           /\ IF LoopsAgain(flags'.z) THEN k + 1 < Limit /\ NoneStops(k + 1) ELSE Done = k + 1
<1>1. stringop # 0 BY DEF StringElement
<1>2. /\ BegunTyped /\ begun.op = stringop /\ begun.d = flags.d
      /\ begun.rep = option.active /\ begun.z = option.z
      BY <1>1 DEF InString
<1>3. PICK k \in Nat : Handled(k) BY <1>1 DEF InString
<1>4. RegistersAt(reg, k) /\ MemoryAt(data, k) /\ k < Limit BY <1>3 DEF Handled
<1>5. RegistersAt(reg', k + 1) BY <1>2, <1>4, TurnMoves
<1>6. ElementStored(data, data', k) BY <1>2, <1>4, TurnStores
<1>7. MemoryAt(data', k + 1) BY <1>2, <1>4, <1>6, MemoryNext
<1>8. OnlyCompares => flags'.z = (Left(k) = Right(k)) /\ flags'.c = (Left(k) < Right(k))
      BY <1>2, <1>4, TurnCompares
<1>9. IF LoopsAgain(flags'.z) THEN k + 1 < Limit /\ NoneStops(k + 1) ELSE Done = k + 1
      BY <1>2, <1>3, LastTurn
<1> QED BY <1>5, <1>7, <1>8, <1>9

LEMMA InStringStep ==
  ASSUME TypeOK, InString, [WatchedNext]_allvars
  PROVE  InString'
<1>1. [Next]_vars BY DEF WatchedNext, allvars
<1> SUFFICES ASSUME stringop' # 0 PROVE InString' BY DEF InString
<1>2. CASE stringop = 0
  <2>1. StringStart BY <1>1, <1>2, OnlyStarts
  <2>2. Beginning BY <1>2 DEF WatchedNext, allvars, vars
  <2> QED BY <2>1, <2>2, StringBegins
<1>3. CASE stringop # 0
  <2>1. begun' = begun BY <1>3 DEF WatchedNext, Beginning, Ready, allvars, watched
  <2>2. /\ BegunTyped /\ begun.op = stringop /\ begun.d = flags.d
        /\ begun.rep = option.active /\ begun.z = option.z
        BY <1>3 DEF InString
  <2>3. BegunTyped' BY <2>1, <2>2 DEF BegunTyped
  <2>4. CASE StringElement
    <3>1. PICK k \in Nat :
            /\ RegistersAt(reg', k + 1) /\ MemoryAt(data', k + 1)
            /\ IF LoopsAgain(flags'.z) THEN k + 1 < Limit /\ NoneStops(k + 1) ELSE Done = k + 1
          BY <2>4, TurnHandles
    <3>2. LoopsAgain(flags'.z) BY <2>4 DEF StringElement
    <3>3. option' = option /\ stringop' = stringop BY <2>4, <3>2 DEF StringElement
    <3>4. flags'.d = flags.d BY <2>4 DEF StringElement, SetZSOC
    <3>5. k + 1 \in Nat /\ k + 1 < Limit /\ NoneStops(k + 1) BY <3>1, <3>2
    <3>6. Handled(k + 1)' BY <2>1, <3>1, <3>5, BegunStays
    <3>7. \E j \in Nat : Handled(j)' BY <3>5, <3>6
    <3> QED BY <2>1, <2>2, <2>3, <3>3, <3>4, <3>7 DEF InString
  <2>5. CASE UNCHANGED <<reg, flags, data, option, stringop>>
    <3>1. PICK k \in Nat : Handled(k) BY <1>3 DEF InString
    <3>2. RegistersAt(reg', k) /\ MemoryAt(data', k) /\ NoneStops(k) /\ k < Limit
          BY <2>5, <3>1 DEF Handled
    <3>3. Handled(k)' BY <2>1, <3>2, BegunStays
    <3>4. \E j \in Nat : Handled(j)' BY <3>3
    <3> QED BY <2>1, <2>2, <2>3, <2>5, <3>4 DEF InString
  <2> QED BY <1>1, <1>3, <2>4, <2>5, OnlyTurns
<1> QED BY <1>2, <1>3

\* What StringRight promises of a step.
LEMMA EndsRight ==
  ASSUME TypeOK, InString, [Next]_vars, Ends
  PROVE  /\ reg'[DI] = TargetAt(Done)
         /\ begun.op \in {\ha4, \ha5, \ha6} => reg'[SI] = SourceAt(Done)
         /\ begun.rep => reg'[CX] = begun.reg[CX] - Done
         /\ \A a \in DOMAIN data' :
              (begun.op \in {\ha6, \hae} \/ a \notin Targets(Done)) => data'[a] = At(begun.data, a)
         /\ begun.op \in {\ha4, \ha5} /\ Targets(Done) \cap Sources(Done) = {} =>
              \A i \in 0 .. Done - 1 : \A k \in 0 .. 1 :
                (k = 1 => begun.op = \ha5)
                => At(data', TargetAt(i) + k) = At(begun.data, SourceAt(i) + k)
         /\ begun.op = \haa => \A a \in Targets(Done) : At(data', a) = LowByte(begun.reg[AX])
         /\ begun.op \in {\ha6, \hae} =>
              /\ flags'.z = (Left(Done - 1) = Right(Done - 1))
              /\ flags'.c = (Left(Done - 1) < Right(Done - 1))
<1>1. StringElement BY OnlyTurns DEF Ends
<1>2. PICK k \in Nat :
        /\ RegistersAt(reg', k + 1) /\ MemoryAt(data', k + 1)
        /\ OnlyCompares => /\ flags'.z = (Left(k) = Right(k))
                           /\ flags'.c = (Left(k) < Right(k))
        /\ IF LoopsAgain(flags'.z) THEN k + 1 < Limit /\ NoneStops(k + 1) ELSE Done = k + 1
      BY <1>1, TurnHandles
<1>3. ~LoopsAgain(flags'.z) BY <1>1 DEF Ends, StringElement
<1>4. Done = k + 1 BY <1>2, <1>3
<1>5. Done - 1 = k BY <1>4
<1>6. RegistersAt(reg', Done) /\ MemoryAt(data', Done) BY <1>2, <1>4
<1>7. OnlyCompares => /\ flags'.z = (Left(Done - 1) = Right(Done - 1))
                      /\ flags'.c = (Left(Done - 1) < Right(Done - 1))
      BY <1>2, <1>5
<1>8. \A a \in DOMAIN data' :
        (begun.op \in {\ha6, \hae} \/ a \notin Targets(Done)) => data'[a] = At(begun.data, a)
      BY <1>6 DEF MemoryAt, OthersKept, OnlyCompares, At
<1>9. Copies => Copied(data', Done) BY <1>6 DEF MemoryAt
<1>10. begun.op = \haa => Filled(data', Done) BY <1>6 DEF MemoryAt
<1>11. begun.op \in {\ha4, \ha5} /\ Targets(Done) \cap Sources(Done) = {} =>
         \A i \in 0 .. Done - 1 : \A j \in 0 .. 1 :
           (j = 1 => begun.op = \ha5)
           => At(data', TargetAt(i) + j) = At(begun.data, SourceAt(i) + j)
       BY <1>9 DEF Copies, Copied
<1> QED BY <1>6, <1>7, <1>8, <1>10, <1>11 DEF RegistersAt, Filled, OnlyCompares

\* In every program, wherever SI and DI point and whatever CX holds, a string
\* instruction ends having handled exactly the elements the manual says.
THEOREM StringsRight == WatchedSpec => StringRight
<1>1. WatchedInit => TypeOK /\ InString
      BY InitType DEF WatchedInit, InString, Init
<1>2. TypeOK /\ InString /\ [WatchedNext]_allvars => TypeOK' /\ InString'
  <2>1. [WatchedNext]_allvars => [Next]_vars BY DEF WatchedNext, allvars
  <2> QED BY <2>1, StepType, InStringStep DEF Typed
<1>3. TypeOK /\ InString /\ [WatchedNext]_allvars =>
       [Ends =>
       /\ reg'[DI] = TargetAt(Done)
       /\ begun.op \in {\ha4, \ha5, \ha6} => reg'[SI] = SourceAt(Done)
       /\ begun.rep => reg'[CX] = begun.reg[CX] - Done
       /\ \A a \in DOMAIN data' :
            (begun.op \in {\ha6, \hae} \/ a \notin Targets(Done)) => data'[a] = At(begun.data, a)
       /\ begun.op \in {\ha4, \ha5} /\ Targets(Done) \cap Sources(Done) = {} =>
            \A i \in 0 .. Done - 1 : \A k \in 0 .. 1 :
              (k = 1 => begun.op = \ha5)
              => At(data', TargetAt(i) + k) = At(begun.data, SourceAt(i) + k)
       /\ begun.op = \haa => \A a \in Targets(Done) : At(data', a) = LowByte(begun.reg[AX])
       /\ begun.op \in {\ha6, \hae} =>
            /\ flags'.z = (Left(Done - 1) = Right(Done - 1))
            /\ flags'.c = (Left(Done - 1) < Right(Done - 1))]_allvars
  BY EndsRight DEF WatchedNext
<1> QED BY <1>1, <1>2, <1>3, PTL DEF WatchedSpec, StringRight
-----------------------------------------------------------------------------
\* The bytes the other decoder is given.
AtPc == [k \in 0 .. 7 |-> Fetched(k)]

\* Their fields are those the processor has taken out of them.
LEMMA SameFields ==
  /\ \A k \in 0 .. 7 : AtPc[k] = Fetched(k)
  /\ AtPc[0] = Op /\ AtPc[1] = Fetched(1) /\ AtPc[2] = Fetched(2)
  /\ L!WordBit(AtPc) = W /\ (L!ToRegister(AtPc) <=> D = 1)
  /\ L!Mode(AtPc) = Mod /\ L!Ext(AtPc) = Reg /\ L!Rm(AtPc) = Rom
  /\ L!DirectAddress(AtPc) <=> Direct
  /\ L!DispSize(AtPc) = DispLen /\ L!HeadSize(AtPc) = 2 + DispLen
<1>1. \A k \in 0 .. 7 : AtPc[k] = Fetched(k) BY DEF AtPc
<1>2. AtPc[0] = Op /\ AtPc[1] = Fetched(1) /\ AtPc[2] = Fetched(2) BY <1>1 DEF Op
<1>3. L!WordBit(AtPc) = W /\ (L!ToRegister(AtPc) <=> D = 1)
  BY <1>2 DEF L!WordBit, W, L!ToRegister, D
<1>4. L!Mode(AtPc) = Mod /\ L!Ext(AtPc) = Reg /\ L!Rm(AtPc) = Rom
  BY <1>2 DEF L!Mode, Mod, L!Ext, Reg, L!Rm, Rom
<1>5. L!DirectAddress(AtPc) <=> Direct BY <1>4 DEF L!DirectAddress, Direct
<1>6. L!DispSize(AtPc) = DispLen
  <2>1. CASE Direct \/ Mod = 2 BY <1>4, <1>5, <2>1 DEF L!DispSize, DispLen, Direct
  <2>2. CASE ~Direct /\ Mod # 2 BY <1>4, <1>5, <2>2 DEF L!DispSize, DispLen
  <2> QED BY <2>1, <2>2
<1>7. L!HeadSize(AtPc) = 2 + DispLen BY <1>6 DEF L!HeadSize
<1> QED BY <1>1, <1>2, <1>3, <1>4, <1>5, <1>6, <1>7

LEMMA ShownIs == Shown = L!Decoded(AtPc, addr)
BY DEF Shown, AtPc

\* A line for n bytes that prints these operands.
Lined(n, ops) == Shown = L!Shown(n, ops)

LEMMA LinedParts ==
  ASSUME NEW n, NEW ops, Lined(n, ops)
  PROVE  Shown.kind = "shown" /\ Shown.size = n /\ Shown.ops = ops
BY DEF Lined, L!Shown, L!Shape

LEMMA IfLined ==
  ASSUME NEW known, known, NEW n, NEW ops, Shown = L!If(known, L!Shown(n, ops))
  PROVE  Lined(n, ops)
BY DEF Lined, L!If

LEMMA ArithmeticLines ==
  ASSUME TypeOK, Op < 64
  PROVE  /\ Op % 8 <= 3 => Lined(2 + DispLen, L!EitherWay(AtPc))
         /\ Op % 8 \in {4, 5} /\ Op # \h35 => Lined(2 + W, L!AccumulatorWithData(AtPc))
<1>1. Op \in Int /\ 0 <= Op BY DecodeType, InByte
<1>2. Op % 8 <= 5 => Shown = L!Arithmetic(AtPc)
  <2>1. Op % 8 <= 5 => Op \notin L!PrefixOpcodes BY <1>1 DEF L!PrefixOpcodes
  <2> QED BY <1>1, <2>1, SameFields, ShownIs DEF L!Decoded
<1>3. ASSUME Op % 8 <= 3 PROVE Lined(2 + DispLen, L!EitherWay(AtPc))
  BY <1>1, <1>2, <1>3, SameFields DEF L!Arithmetic, Lined
<1>4. ASSUME Op % 8 \in {4, 5}, Op # \h35 PROVE Lined(2 + W, L!AccumulatorWithData(AtPc))
  <2>1. Op % 8 <= 5 BY <1>1, <1>4
  <2> QED BY <1>1, <1>2, <1>4, <2>1, SameFields DEF L!Arithmetic, Lined
<1> QED BY <1>3, <1>4

LEMMA OneRegisterLines ==
  ASSUME TypeOK, Op \in \h40 .. \h5f
  PROVE  Lined(1, <<L!Register(1, Op % 8)>>)
<1>1. Op \in Int BY DecodeType
<1>2. Op \notin L!PrefixOpcodes BY <1>1 DEF L!PrefixOpcodes
<1>3. Shown = L!OneRegister(AtPc) BY <1>1, <1>2, SameFields, ShownIs DEF L!Decoded
<1> QED BY <1>3, SameFields DEF L!OneRegister, Lined

LEMMA NumberFirst == ASSUME NEW v PROVE <<L!Number(v)>>[1].n = v % 65536
BY DEF L!Number, L!Operand

LEMMA ShortJumpLines ==
  ASSUME TypeOK, Op \in ShortJumps \cup {\heb}
  PROVE  /\ Shown.kind = "shown" /\ Shown.size = 2
         /\ Shown.ops[1].n = Short(2) % 65536
<1>1. Op \in Int BY DecodeType
<1>2. Op \in {\h72, \h73, \h74, \h75, \h76, \h77, \h7c, \h7d, \h7e, \h7f, \he2, \he3, \heb}
  BY <1>1 DEF ShortJumps, Conditions
<1>3. Op \notin L!PrefixOpcodes BY <1>2 DEF L!PrefixOpcodes
<1>4. Shown = L!ShortJump(AtPc, addr)
  <2>1. CASE Op \in {\he2, \he3, \heb}
    <3>1. Shown = L!ShiftsAndPorts(AtPc, addr)
      BY <1>3, <2>1, SameFields, ShownIs DEF L!Decoded
    <3> QED BY <2>1, <3>1, SameFields DEF L!ShiftsAndPorts
  <2>2. CASE Op \notin {\he2, \he3, \heb}
    BY <1>2, <1>3, <2>2, SameFields, ShownIs DEF L!Decoded
  <2> QED BY <2>1, <2>2
<1>5. Lined(2, <<L!Number(addr + 2 + SignExtend(Fetched(1)))>>)
  <2>1. L!SignExtend(Fetched(1)) = SignExtend(Fetched(1))
    BY DEF SignExtend, L!SignExtend, Signed, L!Signed
  <2> QED BY <1>4, <2>1, SameFields DEF L!ShortJump, Lined
<1> QED BY <1>5, LinedParts, NumberFirst DEF Short, Relative

LEMMA NearJumpLines ==
  ASSUME TypeOK, Op \in {\he8, \he9}
  PROVE  /\ Shown.kind = "shown" /\ Shown.size = 3
         /\ Shown.ops[1].n = Near % 65536
<1>1. Op \in Int BY DecodeType
<1>2. Op \notin L!PrefixOpcodes BY DEF L!PrefixOpcodes
<1>3. Shown = L!ShiftsAndPorts(AtPc, addr) BY <1>1, <1>2, SameFields, ShownIs DEF L!Decoded
<1>4. Shown = L!NearJump(AtPc, addr) BY <1>3, SameFields DEF L!ShiftsAndPorts
<1>5. Lined(3, <<L!Number(addr + 3 + FetchedWord(1))>>)
  <2>1. L!Pair(AtPc[1], AtPc[2]) = FetchedWord(1)
    BY SameFields DEF FetchedWord, Pair, L!Pair
  <2> QED BY <1>4, <2>1 DEF L!NearJump, Lined
<1> QED BY <1>5, LinedParts, NumberFirst DEF Near, Relative

LEMMA ImmediateLines ==
  ASSUME TypeOK, Op \in {\h80, \h81, \h83}, Reg # 6, ~(Reg = 1 /\ Op = \h83)
  PROVE  /\ Shown.size = 3 + DispLen + (IF Op = \h81 THEN 1 ELSE 0)
         /\ Shown.kind = IF Unlisted THEN "silent" ELSE "shown"
         /\ ~Unlisted => Shown.ops = L!EAWithData(AtPc, L!DataSW(AtPc, 2 + DispLen))
<1>1. Op \in Int /\ Reg \in 0 .. 7 /\ DispLen \in 0 .. 2 BY DecodeType
<1>2. Op \notin L!PrefixOpcodes BY DEF L!PrefixOpcodes
<1>3. Shown = L!ImmediateGroup(AtPc) BY <1>1, <1>2, SameFields, ShownIs DEF L!Decoded
<1> DEFINE wide == IF Op = \h81 THEN 1 ELSE 0
           known == IF Op = \h81 THEN {0, 1, 3, 4, 5, 7} ELSE {0, 2, 3, 4, 5, 7}
           ops == L!EAWithData(AtPc, L!DataSW(AtPc, 2 + DispLen))
<1>4. Shown = L!If(Reg \in known, L!Shown(2 + DispLen + 1 + wide, ops))
  BY <1>3, SameFields DEF L!ImmediateGroup
<1>5. Reg \in known <=> ~Unlisted BY <1>1 DEF Unlisted
<1>6. 2 + DispLen + 1 + wide = 3 + DispLen + wide BY <1>1
<1> QED BY <1>4, <1>5, <1>6 DEF L!If, L!Shown, L!Shape

LEMMA MoveLines ==
  ASSUME TypeOK
  PROVE  /\ Op \in \h84 .. \h87 => Lined(2 + DispLen, L!EAWithRegister(AtPc))
         /\ Op \in \h88 .. \h8b => Lined(2 + DispLen, L!EitherWay(AtPc))
         /\ Op = \h8d => Lined(2 + DispLen, <<L!Register(1, Reg), L!EA(AtPc, 1)>>)
         /\ Op = \h8f /\ Reg = 0 => Lined(2 + DispLen, L!OneEA(AtPc, 1))
<1>1. Op \in Int BY DecodeType
<1>2. Op \in \h84 .. \h8f => Shown = L!MoveGroup(AtPc)
  <2>1. Op \in \h84 .. \h8f => Op \notin L!PrefixOpcodes BY <1>1 DEF L!PrefixOpcodes
  <2> QED BY <1>1, <2>1, SameFields, ShownIs DEF L!Decoded
<1>3. ASSUME Op \in \h84 .. \h87 PROVE Lined(2 + DispLen, L!EAWithRegister(AtPc))
  BY <1>1, <1>2, <1>3, SameFields DEF L!MoveGroup, Lined
<1>4. ASSUME Op \in \h88 .. \h8b PROVE Lined(2 + DispLen, L!EitherWay(AtPc))
  BY <1>1, <1>2, <1>4, SameFields DEF L!MoveGroup, Lined
<1>5. ASSUME Op = \h8d PROVE Lined(2 + DispLen, <<L!Register(1, Reg), L!EA(AtPc, 1)>>)
  BY <1>2, <1>5, SameFields DEF L!MoveGroup, Lined
<1>6. ASSUME Op = \h8f, Reg = 0 PROVE Lined(2 + DispLen, L!OneEA(AtPc, 1))
  <2>1. Shown = L!If(Reg = 0, L!Shown(2 + DispLen, L!OneEA(AtPc, 1)))
    BY <1>2, <1>6, SameFields DEF L!MoveGroup
  <2> QED BY <1>6, <2>1, IfLined
<1> QED BY <1>3, <1>4, <1>5, <1>6

LEMMA AccumulatorLines ==
  ASSUME TypeOK
  PROVE  /\ Op \in \h90 .. \h97 => Lined(1, <<L!Register(1, Op % 8), L!Accumulator(1)>>)
         /\ Op \in {\h98, \h99} \cup \ha4 .. \ha7 \cup \haa .. \haf => Lined(1, <<>>)
         /\ Op \in \ha0 .. \ha3 => Lined(3, L!AccumulatorWithMemory(AtPc))
         /\ Op \in {\ha8, \ha9} => Lined(2 + W, L!AccumulatorWithData(AtPc))
<1>1. Op \in Int BY DecodeType
<1>2. Op \in \h90 .. \haf => Shown = L!Accumulators(AtPc)
  <2>1. Op \in \h90 .. \haf => Op \notin L!PrefixOpcodes BY <1>1 DEF L!PrefixOpcodes
  <2> QED BY <1>1, <2>1, SameFields, ShownIs DEF L!Decoded
<1> DEFINE rest == {\h98, \h99, \h9c, \h9d} \cup \ha4 .. \ha7 \cup \haa .. \haf
<1>3. ASSUME Op \in \h90 .. \h97
      PROVE  Lined(1, <<L!Register(1, Op % 8), L!Accumulator(1)>>)
  <2>1. /\ Op \in \h90 .. \haf /\ Op \notin \ha0 .. \ha3 /\ Op \notin {\ha8, \ha9}
        /\ Op \notin rest
    BY <1>1, <1>3
  <2> QED BY <1>2, <1>3, <2>1, SameFields DEF L!Accumulators, Lined
<1>4. ASSUME Op \in {\h98, \h99} \cup \ha4 .. \ha7 \cup \haa .. \haf PROVE Lined(1, <<>>)
  <2>1. Op \in \h90 .. \haf /\ Op \notin \h90 .. \h97 \cup \ha0 .. \ha3 \cup {\ha8, \ha9}
    BY <1>1, <1>4
  <2> QED BY <1>2, <1>4, <2>1, SameFields DEF L!Accumulators, Lined
<1>5. ASSUME Op \in \ha0 .. \ha3 PROVE Lined(3, L!AccumulatorWithMemory(AtPc))
  <2>1. /\ Op \in \h90 .. \haf /\ Op \notin \h90 .. \h97 /\ Op \notin {\ha8, \ha9}
        /\ Op \notin rest
    BY <1>1, <1>5
  <2> QED BY <1>2, <1>5, <2>1, SameFields DEF L!Accumulators, Lined
<1>6. ASSUME Op \in {\ha8, \ha9} PROVE Lined(2 + W, L!AccumulatorWithData(AtPc))
  BY <1>1, <1>2, <1>6, SameFields DEF L!Accumulators, Lined
<1> QED BY <1>3, <1>4, <1>5, <1>6

LEMMA ImmediateMoveLines ==
  ASSUME TypeOK
  PROVE  /\ Op \in \hb0 .. \hbf =>
              Lined(2 + ((Op \div 8) % 2), L!RegisterWithData(AtPc))
         /\ Op = \hc2 => Lined(3, <<L!Number(FetchedWord(1))>>)
         /\ Op = \hc3 => Lined(1, <<>>)
         /\ Op \in {\hc6, \hc7} =>
              Lined(3 + DispLen + W, L!EAWithData(AtPc, L!DataAt(AtPc, 2 + DispLen, W)))
<1>1. Op \in Int /\ W \in {0, 1} /\ DispLen \in 0 .. 2 BY DecodeType
<1>2. Op \in \hb0 .. \hcf => Shown = L!Immediates(AtPc)
  <2>1. Op \in \hb0 .. \hcf => Op \notin L!PrefixOpcodes BY <1>1 DEF L!PrefixOpcodes
  <2> QED BY <1>1, <2>1, SameFields, ShownIs DEF L!Decoded
<1>3. ASSUME Op \in \hb0 .. \hbf
      PROVE  Lined(2 + ((Op \div 8) % 2), L!RegisterWithData(AtPc))
  <2>1. /\ Op \in \hb0 .. \hcf
        /\ Op \notin {\hc2, \hc3, \hc5, \hc6, \hc7, \hcb, \hcc, \hcd, \hcf}
    BY <1>1, <1>3
  <2> QED BY <1>2, <1>3, <2>1, SameFields DEF L!Immediates, Lined
<1>4. ASSUME Op = \hc2 PROVE Lined(3, <<L!Number(FetchedWord(1))>>)
  <2>1. L!Pair(AtPc[1], AtPc[2]) = FetchedWord(1)
    BY SameFields DEF FetchedWord, Pair, L!Pair
  <2> QED BY <1>2, <1>4, <2>1, SameFields DEF L!Immediates, Lined
<1>5. ASSUME Op = \hc3 PROVE Lined(1, <<>>)
  BY <1>2, <1>5, SameFields DEF L!Immediates, Lined
<1>6. ASSUME Op \in {\hc6, \hc7}
      PROVE  Lined(3 + DispLen + W, L!EAWithData(AtPc, L!DataAt(AtPc, 2 + DispLen, W)))
  <2> DEFINE ops == L!EAWithData(AtPc, L!DataAt(AtPc, 2 + DispLen, W))
  <2>1. Shown = L!Shown(2 + DispLen + 1 + W, ops)
    BY <1>2, <1>6, SameFields DEF L!Immediates
  <2>2. 2 + DispLen + 1 + W = 3 + DispLen + W BY <1>1
  <2> QED BY <2>1, <2>2 DEF Lined
<1> QED BY <1>3, <1>4, <1>5, <1>6

LEMMA ShiftLines ==
  ASSUME TypeOK, Op \in \hd0 .. \hd3, Reg # 6
  PROVE  Lined(2 + DispLen, L!ShiftOperands(AtPc))
<1>1. Op \in Int BY DecodeType
<1>2. Op \notin L!PrefixOpcodes BY <1>1 DEF L!PrefixOpcodes
<1>3. Shown = L!ShiftsAndPorts(AtPc, addr) BY <1>1, <1>2, SameFields, ShownIs DEF L!Decoded
<1>4. Shown = L!If(Reg # 6, L!Shown(2 + DispLen, L!ShiftOperands(AtPc)))
  BY <1>3, SameFields DEF L!ShiftsAndPorts
<1> QED BY <1>4 DEF L!If, Lined

LEMMA UnaryLines ==
  ASSUME TypeOK
  PROVE  /\ Op \in {\hf6, \hf7} /\ Reg = 0 =>
              Lined(3 + DispLen + W, L!EAWithData(AtPc, L!DataAt(AtPc, 2 + DispLen, W)))
         /\ Op \in {\hf6, \hf7} /\ Reg \notin {0, 1} => Lined(2 + DispLen, L!OneEA(AtPc, W))
         /\ Op \in {\hfe, \hff} /\ Reg \in {0, 1, 2, 4, 6} =>
              Lined(2 + DispLen, L!OneEA(AtPc, IF Reg < 2 THEN W ELSE 1))
         /\ Op \in {\hfc, \hfd} => Lined(1, <<>>)
<1>1. Op \in Int /\ W \in {0, 1} /\ DispLen \in 0 .. 2 BY DecodeType
<1>2. Op >= \hf4 => Shown = L!UnaryGroup(AtPc)
  <2>1. Op >= \hf4 => Op \notin L!PrefixOpcodes BY <1>1 DEF L!PrefixOpcodes
  <2> QED BY <1>1, <2>1, SameFields, ShownIs DEF L!Decoded
<1>3. ASSUME Op \in {\hf6, \hf7}, Reg = 0
      PROVE  Lined(3 + DispLen + W, L!EAWithData(AtPc, L!DataAt(AtPc, 2 + DispLen, W)))
  <2> DEFINE ops == L!EAWithData(AtPc, L!DataAt(AtPc, 2 + DispLen, W))
  <2>1. Shown = L!Shown(2 + DispLen + 1 + W, ops)
    BY <1>2, <1>3, SameFields DEF L!UnaryGroup
  <2>2. 2 + DispLen + 1 + W = 3 + DispLen + W BY <1>1
  <2> QED BY <2>1, <2>2 DEF Lined
<1>4. ASSUME Op \in {\hf6, \hf7}, Reg \notin {0, 1} PROVE Lined(2 + DispLen, L!OneEA(AtPc, W))
  <2>1. Shown = L!If(Reg # 1, L!Shown(2 + DispLen, L!OneEA(AtPc, W)))
    BY <1>2, <1>4, SameFields DEF L!UnaryGroup
  <2> QED BY <1>4, <2>1 DEF L!If, Lined
<1>5. ASSUME Op \in {\hfe, \hff}, Reg \in {0, 1, 2, 4, 6}
      PROVE  Lined(2 + DispLen, L!OneEA(AtPc, IF Reg < 2 THEN W ELSE 1))
  <2> DEFINE ops == L!OneEA(AtPc, IF Reg < 2 THEN W ELSE 1)
  <2>1. Shown = L!If(Reg \in {0, 1, 2, 4, 6}, L!Shown(2 + DispLen, ops))
    BY <1>2, <1>5, SameFields DEF L!UnaryGroup
  <2> QED BY <1>5, <2>1, IfLined
<1>6. ASSUME Op \in {\hfc, \hfd} PROVE Lined(1, <<>>)
  BY <1>2, <1>6, SameFields DEF L!UnaryGroup, Lined
<1> QED BY <1>3, <1>4, <1>5, <1>6

LEMMA PrefixLines == ASSUME Op \in {\hf2, \hf3} PROVE Shown.kind = "prefix" /\ Shown.size = 1
<1>1. Op \in L!PrefixOpcodes BY DEF L!PrefixOpcodes
<1>2. /\ Op \notin \h40 .. \h5f /\ Op \notin {\h70} \cup \h72 .. \h78 \cup \h7c .. \h7f
      /\ Op \notin \h80 .. \h83 /\ Op \notin \h84 .. \h8f /\ Op \notin \h90 .. \haf
      /\ Op \notin \hb0 .. \hcf /\ Op \notin \hd0 .. \hef /\ ~(Op >= \hf4)
  OBVIOUS
<1>3. Shown = L!Shape("prefix", 1, <<>>)
  BY <1>1, <1>2, SameFields, ShownIs DEF L!Decoded
<1> QED BY <1>3 DEF L!Shape
-----------------------------------------------------------------------------
\* What a step must show to keep the listing in step.
InStep ==
  Executes =>
    /\ Shown.kind # "undefined"
    /\ Shown.kind = "silent" <=> Unlisted
    /\ Op \in ShortJumps => pc' \in {pc + Shown.size, Shown.ops[1].n}
    /\ Op \in DirectJumps => pc' = Shown.ops[1].n
    /\ Op \notin ShortJumps \cup DirectJumps /\ ~IndirectJumps => pc' = pc + Shown.size

LEMMA NotExecuting == ASSUME ~Executes PROVE InStep
BY DEF InStep

\* A pass that goes on behind its instruction.
LEMMA GoesOn ==
  ASSUME NEW n, NEW ops, Lined(n, ops), Advance(n), ~Unlisted,
         Op \notin ShortJumps \cup DirectJumps
  PROVE  InStep
BY LinedParts DEF InStep, Advance

\* Opcodes that jump nowhere.
LEMMA NoJump ==
  ASSUME TypeOK,
         \/ Op < \h70 \/ Op \in \h80 .. \hdf \/ Op >= \hec
  PROVE  Op \notin ShortJumps \cup DirectJumps
<1>1. Op \in Int BY DecodeType
<1>2. \A cc \in Conditions : \h70 <= \h70 + cc /\ \h70 + cc < \h80 BY DEF Conditions
<1> QED BY <1>1, <1>2 DEF ShortJumps, DirectJumps

LEMMA GoesOnListed ==
  ASSUME TypeOK, NEW n, NEW ops, Lined(n, ops), Advance(n), Op \notin {\h80, \h81},
         \/ Op < \h70 \/ Op \in \h80 .. \hdf \/ Op >= \hec
  PROVE  InStep
BY NoJump, GoesOn DEF Unlisted

\* The call or jump an operand gives.
LEMMA GoesIndirectly ==
  ASSUME TypeOK, NEW n, NEW ops, Lined(n, ops), IndirectJumps
  PROVE  InStep
<1>1. Op \notin ShortJumps \cup DirectJumps BY DecodeType, NoJump DEF IndirectJumps
<1>2. ~Unlisted BY DEF IndirectJumps, Unlisted
<1> QED BY <1>1, <1>2, LinedParts DEF InStep
-----------------------------------------------------------------------------
LEMMA ArithmeticInStep == ASSUME TypeOK, Arithmetic PROVE InStep
<1>1. Op \in Int /\ W \in {0, 1} /\ DispLen \in 0 .. 2 BY DecodeType
<1>2. CASE AluReg
  <2>1. Op < 64 /\ Op % 8 <= 3 /\ Advance(2 + DispLen) BY <1>2 DEF AluReg
  <2> QED BY <1>1, <2>1, ArithmeticLines, GoesOnListed
<1>3. CASE AluAcc
  <2>1. Op < 64 /\ Op % 8 \in {4, 5} /\ Kind # 6 /\ Advance(2 + W) BY <1>3 DEF AluAcc
  <2>2. Op # \h35 BY <2>1 DEF Kind
  <2> QED BY <1>1, <2>1, <2>2, ArithmeticLines, GoesOnListed
<1>4. CASE AluImm
  <2> DEFINE n == 3 + DispLen + (IF Op = \h81 THEN 1 ELSE 0)
  <2>1. Op \in {\h80, \h81, \h83} /\ Reg # 6 /\ ~(Reg = 1 /\ Op = \h83) /\ Advance(n)
    BY <1>4 DEF AluImm
  <2>2. Shown.size = n /\ Shown.kind = IF Unlisted THEN "silent" ELSE "shown"
    BY <2>1, ImmediateLines
  <2>3. Op \notin ShortJumps \cup DirectJumps BY <2>1, NoJump
  <2>4. pc' = pc + n BY <2>1 DEF Advance
  <2>5. Shown.kind # "undefined" /\ (Shown.kind = "silent" <=> Unlisted) BY <2>2
  <2> QED BY <2>2, <2>3, <2>4, <2>5 DEF InStep
<1>5. CASE IncDecReg
  <2>1. Op \in \h40 .. \h4f /\ Advance(1) BY <1>5 DEF IncDecReg
  <2>2. Op \in \h40 .. \h5f /\ Op < \h70 BY <1>1, <2>1
  <2> QED BY <2>1, <2>2, OneRegisterLines, GoesOnListed
<1>6. CASE IncDecEA
  <2>1. Op \in {\hfe, \hff} /\ Reg \in {0, 1} /\ Advance(2 + DispLen) BY <1>6 DEF IncDecEA
  <2> QED BY <2>1, UnaryLines, GoesOnListed
<1>7. CASE TestReg
  <2>1. Op \in {\h84, \h85} /\ Advance(2 + DispLen) BY <1>7 DEF TestReg
  <2> QED BY <2>1, MoveLines, GoesOnListed
<1>8. CASE TestAcc
  <2>1. Op \in {\ha8, \ha9} /\ Advance(2 + W) BY <1>8 DEF TestAcc
  <2> QED BY <2>1, AccumulatorLines, GoesOnListed
<1>9. CASE TestImm
  <2>1. Op \in {\hf6, \hf7} /\ Reg = 0 /\ Advance(3 + DispLen + W) BY <1>9 DEF TestImm
  <2> QED BY <2>1, UnaryLines, GoesOnListed
<1>10. CASE Not \/ Negate \/ Multiply \/ Divide \/ SignedDivide
  <2>1. Op \in {\hf6, \hf7} /\ Reg \in {2, 3, 4, 6, 7} /\ Advance(2 + DispLen)
    BY <1>10 DEF Not, Negate, Multiply, Divide, SignedDivide, Dividing
  <2> QED BY <2>1, UnaryLines, GoesOnListed
<1>11. CASE DivideCrash BY <1>11, NotExecuting DEF DivideCrash, Executes
<1>12. CASE Shift
  <2>1. Op \in \hd0 .. \hd3 /\ Reg \in {2, 3, 4, 5, 7} /\ Advance(2 + DispLen)
    BY <1>12 DEF Shift
  <2>2. Op \in \h80 .. \hdf /\ Op \notin {\h80, \h81} BY <1>1, <2>1
  <2> QED BY <2>1, <2>2, ShiftLines, GoesOnListed
<1> QED BY <1>2, <1>3, <1>4, <1>5, <1>6, <1>7, <1>8, <1>9, <1>10, <1>11, <1>12 DEF Arithmetic

LEMMA TransferInStep == ASSUME TypeOK, Transfer PROVE InStep
<1>1. Op \in Int /\ W \in {0, 1} /\ DispLen \in 0 .. 2 BY DecodeType
<1>2. CASE MovReg
  <2>1. Op \in \h88 .. \h8b /\ Advance(2 + DispLen) BY <1>2 DEF MovReg
  <2>2. Op \in \h84 .. \h8b /\ Op \in \h80 .. \hdf /\ Op \notin {\h80, \h81} BY <1>1, <2>1
  <2> QED BY <2>1, <2>2, MoveLines, GoesOnListed
<1>3. CASE MovAcc
  <2>1. Op \in \ha0 .. \ha3 /\ Advance(3) BY <1>3 DEF MovAcc
  <2>2. Op \in \h80 .. \hdf /\ Op \notin {\h80, \h81} BY <1>1, <2>1
  <2> QED BY <2>1, <2>2, AccumulatorLines, GoesOnListed
<1>4. CASE MovImmReg
  <2>1. Op \in \hb0 .. \hbf /\ Advance(2 + ((Op \div 8) % 2)) BY <1>4 DEF MovImmReg
  <2>2. Op \in \h80 .. \hdf /\ Op \notin {\h80, \h81} BY <1>1, <2>1
  <2> QED BY <2>1, <2>2, ImmediateMoveLines, GoesOnListed
<1>5. CASE MovImmEA
  <2>1. Op \in {\hc6, \hc7} /\ Advance(3 + DispLen + W) BY <1>5 DEF MovImmEA
  <2> QED BY <2>1, ImmediateMoveLines, GoesOnListed
<1>6. CASE Lea
  <2>1. Op = \h8d /\ Advance(2 + DispLen) BY <1>6 DEF Lea
  <2> QED BY <2>1, MoveLines, GoesOnListed
<1>7. CASE XchgEA
  <2>1. Op \in {\h86, \h87} /\ Advance(2 + DispLen) BY <1>7 DEF XchgEA
  <2> QED BY <2>1, MoveLines, GoesOnListed
<1>8. CASE XchgAcc \/ Convert
  <2>1. Op \in \h90 .. \h97 \cup {\h98, \h99} /\ Advance(1) BY <1>8 DEF XchgAcc, Convert
  <2>2. Op \in \h90 .. \h99 /\ Op \in \h80 .. \hdf /\ Op \notin {\h80, \h81} BY <1>1, <2>1
  <2> QED BY <2>1, <2>2, AccumulatorLines, GoesOnListed
<1>9. CASE Direction
  <2>1. Op \in {\hfc, \hfd} /\ Advance(1) BY <1>9 DEF Direction
  <2> QED BY <2>1, UnaryLines, GoesOnListed
<1>10. CASE PushReg \/ PopReg
  <2>1. Op \in \h50 .. \h57 \cup \h58 .. \h5f /\ Advance(1) BY <1>10 DEF PushReg, PopReg
  <2>2. Op \in \h40 .. \h5f /\ Op < \h70 BY <1>1, <2>1
  <2> QED BY <2>1, <2>2, OneRegisterLines, GoesOnListed
<1>11. CASE PushEA
  <2>1. Op \in {\hfe, \hff} /\ Reg = 6 /\ Advance(2 + DispLen) BY <1>11 DEF PushEA
  <2> QED BY <2>1, UnaryLines, GoesOnListed
<1>12. CASE PopEA
  <2>1. Op = \h8f /\ Reg = 0 /\ Advance(2 + DispLen) BY <1>12 DEF PopEA
  <2> QED BY <2>1, MoveLines, GoesOnListed
<1> QED BY <1>2, <1>3, <1>4, <1>5, <1>6, <1>7, <1>8, <1>9, <1>10, <1>11, <1>12 DEF Transfer

\* A jump by a short displacement goes where its line says, or to the next line.
LEMMA GoesShort ==
  ASSUME TypeOK, Op \in ShortJumps, NEW taken, GoIf(taken, 2)
  PROVE  InStep
<1>1. Shown.kind = "shown" /\ Shown.size = 2 /\ Shown.ops[1].n = Short(2) % 65536
  BY ShortJumpLines
<1>2. pc' \in {pc + 2, Short(2) % 65536} BY DEF GoIf, JumpTo, Advance
<1>3. Op \in Int BY DecodeType
<1>4. Op \notin DirectJumps /\ Op \notin {\h80, \h81}
  <2>1. \A cc \in Conditions : \h70 <= \h70 + cc /\ \h70 + cc < \h80 BY DEF Conditions
  <2> QED BY <1>3, <2>1 DEF ShortJumps, DirectJumps
<1> QED BY <1>1, <1>2, <1>4 DEF InStep, Unlisted

LEMMA GoesDirectly ==
  ASSUME Op \in DirectJumps, Shown.kind = "shown", NEW a, Shown.ops[1].n = a % 65536, JumpTo(a)
  PROVE  InStep
<1>1. pc' = Shown.ops[1].n BY DEF JumpTo
<1>2. Op \notin ShortJumps /\ ~Unlisted
  BY DEF DirectJumps, ShortJumps, Conditions, Unlisted
<1> QED BY <1>1, <1>2 DEF InStep

LEMMA ControlInStep == ASSUME TypeOK, Control PROVE InStep
<1>1. CASE JumpIf
  <2>1. Op \in \h70 .. \h7f /\ Op % 16 \in Conditions /\ GoIf(Holds(Op % 16, flags), 2)
    BY <1>1 DEF JumpIf
  <2>2. Op = \h70 + (Op % 16) BY <2>1
  <2>3. Op \in ShortJumps BY <2>1, <2>2 DEF ShortJumps
  <2> QED BY <2>1, <2>3, GoesShort
<1>2. CASE Loop
  <2>1. Op \in ShortJumps BY <1>2 DEF Loop, ShortJumps
  <2>2. GoIf(reg[CX] # 1, 2) BY <1>2 DEF Loop
  <2> QED BY <2>1, <2>2, GoesShort
<1>3. CASE JumpIfCXZero
  <2>1. Op \in ShortJumps BY <1>3 DEF JumpIfCXZero, ShortJumps
  <2>2. GoIf(reg[CX] = 0, 2) BY <1>3 DEF JumpIfCXZero
  <2> QED BY <2>1, <2>2, GoesShort
<1>4. CASE Jump
  <2>1. Op \in {\he9, \heb} /\ JumpTo(IF Op = \he9 THEN Near ELSE Short(2)) BY <1>4 DEF Jump
  <2>2. Op \in DirectJumps BY <2>1 DEF DirectJumps
  <2>3. CASE Op = \he9
    <3>1. JumpTo(Near) BY <2>1, <2>3
    <3> QED BY <2>2, <2>3, <3>1, NearJumpLines, GoesDirectly
  <2>4. CASE Op = \heb
    <3>1. JumpTo(Short(2)) BY <2>1, <2>4
    <3> QED BY <2>2, <2>4, <3>1, ShortJumpLines, GoesDirectly
  <2> QED BY <2>1, <2>3, <2>4
<1>5. CASE Call
  <2>1. Op = \he8 /\ JumpTo(Near) BY <1>5 DEF Call
  <2>2. Op \in DirectJumps BY <2>1 DEF DirectJumps
  <2> QED BY <2>1, <2>2, NearJumpLines, GoesDirectly
<1>6. CASE JumpEA \/ CallEA
  <2>1. Op \in {\hfe, \hff} /\ Reg \in {2, 4} BY <1>6 DEF JumpEA, CallEA
  <2>2. IndirectJumps BY <2>1 DEF IndirectJumps
  <2> QED BY <2>1, <2>2, UnaryLines, GoesIndirectly
<1>7. CASE Ret
  <2>1. Op \in {\hc2, \hc3} BY <1>7 DEF Ret
  <2>2. IndirectJumps BY <2>1 DEF IndirectJumps
  <2> QED BY <2>1, <2>2, ImmediateMoveLines, GoesIndirectly
<1> QED BY <1>1, <1>2, <1>3, <1>4, <1>5, <1>6, <1>7 DEF Control

LEMMA StringInStep == ASSUME TypeOK, String PROVE InStep
<1>1. CASE Repeat
  <2>1. Op \in {\hf2, \hf3} /\ Advance(1) BY <1>1 DEF Repeat
  <2>2. Shown.kind = "prefix" /\ Shown.size = 1 BY <2>1, PrefixLines
  <2>3. Op \notin ShortJumps \cup DirectJumps BY <2>1, NoJump
  <2>4. ~Unlisted BY <2>1 DEF Unlisted
  <2> QED BY <2>1, <2>2, <2>3, <2>4 DEF InStep, Advance
<1>2. CASE StringStart
  <2>1. Op \in StringOps /\ Advance(1) BY <1>2 DEF StringStart
  <2>2. Op \in \ha4 .. \ha7 \cup \haa .. \haf /\ Op \in \h80 .. \hdf /\ Op \notin {\h80, \h81}
    BY <2>1 DEF StringOps
  <2> QED BY <2>1, <2>2, AccumulatorLines, GoesOnListed
<1>3. CASE StringElement
  <2>1. ~Ready BY <1>3 DEF StringElement, Ready
  <2> QED BY <2>1, NotExecuting DEF Executes
<1> QED BY <1>1, <1>2, <1>3 DEF String

LEMMA StepInStep == ASSUME TypeOK, Next PROVE InStep
<1>1. CASE Arithmetic BY <1>1, ArithmeticInStep
<1>2. CASE Transfer BY <1>2, TransferInStep
<1>3. CASE Control BY <1>3, ControlInStep
<1>4. CASE String BY <1>4, StringInStep
<1>5. CASE SystemCall \/ ExecCall \/ LastCall
  <2>1. Op = \hcd BY <1>5 DEF SystemCall, ExecCall, LastCall, Interrupting
  <2> QED BY <2>1, NotExecuting DEF Executes
<1>6. CASE Ending
  <2>1. status' # "running" BY <1>6 DEF Ending, Refuse, Overrun, Stopped, Running, vars
  <2> QED BY <2>1, NotExecuting DEF Executes
<1> QED BY <1>1, <1>2, <1>3, <1>4, <1>5, <1>6 DEF Next

\* The processor and the listing, which take the code apart each with a decoder of
\* its own, never drift apart, whatever the program: what is executed has a line
\* unless it is one of the two that have none, the next pass is at the next line,
\* and a jump goes where its line says.
THEOREM ListingFollows == Spec => ListingInStep
<1>1. Spec => []TypeOK BY TypeCorrect
<1>2. ASSUME TypeOK, [Next]_vars PROVE [InStep]_vars
  BY <1>2, StepInStep
<1>3. [InStep]_vars => [Executes =>
       /\ Shown.kind # "undefined"
       /\ Shown.kind = "silent" <=> Unlisted
       /\ Op \in ShortJumps => pc' \in {pc + Shown.size, Shown.ops[1].n}
       /\ Op \in DirectJumps => pc' = Shown.ops[1].n
       /\ Op \notin ShortJumps \cup DirectJumps /\ ~IndirectJumps => pc' = pc + Shown.size]_vars
  BY DEF InStep
<1> QED BY <1>1, <1>2, <1>3, PTL DEF Spec, ListingInStep

\* The two modules' casts are one.
LEMMA SameCasts ==
  /\ \A x, m : L!Signed(x, m) = Signed(x, m)
  /\ \A x : L!SignExtend(x) = SignExtend(x)
  /\ \A x, y : L!Pair(x, y) = Pair(x, y)
BY DEF L!Signed, Signed, L!SignExtend, SignExtend, L!Pair, Pair

LEMMA OperandParts ==
  /\ \A w, n : L!Register(w, n).kind = "register" /\ L!Register(w, n).w = w
               /\ L!Register(w, n).n = n
  /\ \A w, n, v : L!Memory(w, n, v).kind = "memory" /\ L!Memory(w, n, v).w = w
                  /\ L!Memory(w, n, v).n = n /\ L!Memory(w, n, v).disp = v
  /\ \A v : L!Number(v).kind = "number" /\ L!Number(v).w = 1 /\ L!Number(v).n = v % 65536
BY DEF L!Register, L!Memory, L!Number, L!Operand

\* The operand of a ModR/M byte as it is printed.
LEMMA PrintedEA ==
  ASSUME NEW w
  PROVE  /\ Mod = 3 => L!EA(AtPc, w) = L!Register(w, Rom)
         /\ Mod # 3 => L!EA(AtPc, w) =
                         L!Memory(w, IF Direct THEN 8 ELSE Rom, L!DispValue(AtPc))
BY SameFields DEF L!EA

\* The displacement is printed with its sign, and added without it.
LEMMA SameDisp ==
  ASSUME TypeOK
  PROVE  L!DispValue(AtPc) \in Int /\ L!DispValue(AtPc) % 65536 = Disp
<1>1. Fetched(2) \in Byte /\ FetchedWord(2) \in Word BY FetchedType
<1>2. /\ Fetched(2) \in Int
      /\ FetchedWord(2) \in Int /\ 0 <= FetchedWord(2) /\ FetchedWord(2) < 65536
  BY <1>1, InByte, InWord
<1>3. L!Pair(AtPc[2], AtPc[3]) = FetchedWord(2)
  BY SameFields, SameCasts DEF FetchedWord
<1>4. DispLen \in 0 .. 2 BY DecodeType
<1>5. CASE DispLen = 2
  <2>1. L!DispValue(AtPc) = Signed(FetchedWord(2), 65536)
    BY <1>3, <1>5, SameFields, SameCasts DEF L!DispValue
  <2>2. Disp = FetchedWord(2) BY <1>5 DEF Disp
  <2> QED BY <1>2, <2>1, <2>2 DEF Signed
<1>6. CASE DispLen = 1
  <2>1. L!DispValue(AtPc) = Signed(Fetched(2), 256)
    BY <1>6, SameFields, SameCasts DEF L!DispValue
  <2>2. Disp = SignExtend(Fetched(2)) BY <1>6 DEF Disp
  <2>3. Signed(Fetched(2), 256) \in Int BY <1>2, SignedIsInt DEF Widths
  <2> QED BY <2>1, <2>2, <2>3 DEF SignExtend
<1>7. CASE DispLen = 0
  <2>1. L!DispValue(AtPc) = 0 /\ Disp = 0 BY <1>7, SameFields DEF L!DispValue, Disp
  <2> QED BY <2>1
<1> QED BY <1>4, <1>5, <1>6, <1>7

LEMMA SumMod ==
  ASSUME NEW a \in Int, NEW b \in Int
  PROVE  (a + (b % 65536)) % 65536 = (a + b) % 65536
OBVIOUS

\* The cell that is printed is the one at the address the processor works out.
LEMMA SameCell ==
  ASSUME TypeOK, Mod # 3, ~Refused, NEW r \in Registers, NEW w
  PROVE  Cell(L!EA(AtPc, w), r) = AddressUnder(r)
<1> DEFINE d == L!DispValue(AtPc)
           n == IF Direct THEN 8 ELSE Rom
<1>1. Cell(L!EA(AtPc, w), r) = (PrintedBase(n, r) + d) % 65536
  BY PrintedEA, OperandParts DEF Cell
<1>2. d \in Int /\ d % 65536 = Disp BY SameDisp
<1> HIDE DEF d
<1>3. CASE Direct
  <2>1. PrintedBase(8, r) = 0 BY DEF PrintedBase
  <2> QED BY <1>1, <1>2, <1>3, <2>1 DEF AddressUnder
<1>4. CASE ~Direct
  <2>1. Rom \in {2, 3, 4, 5, 6, 7}
    <3>1. Rom \in 0 .. 7 BY DecodeType
    <3> QED BY <1>4, <3>1 DEF Refused
  <2>2. PrintedBase(Rom, r) = Base(r) BY <2>1 DEF PrintedBase, Base
  <2>3. Base(r) \in Int
    <3>1. \A i \in 0 .. 7 : r[i] \in Int BY WordIsInt DEF Registers
    <3> QED BY <3>1, NamedRegisters DEF Base
  <2>4. AddressUnder(r) = (Base(r) + (d % 65536)) % 65536 BY <1>2, <1>4 DEF AddressUnder
  <2>5. (Base(r) + (d % 65536)) % 65536 = (Base(r) + d) % 65536 BY <1>2, <2>3, SumMod
  <2> QED BY <1>1, <1>4, <2>2, <2>4, <2>5
<1> QED BY <1>3, <1>4
-----------------------------------------------------------------------------
\* Reading a printed operand.
LEMMA RegisterContents ==
  ASSUME NEW w \in {0, 1}, NEW i, NEW r, NEW d
  PROVE  Contents(L!Register(w, i), r, d) =
           IF w = 1 THEN r[i] ELSE IF i < 4 THEN LowByte(r[i]) ELSE HighByte(r[i - 4])
<1>1. CASE w = 1 BY <1>1, OperandParts DEF Contents
<1>2. CASE w = 0 BY <1>2, OperandParts DEF Contents
<1> QED BY <1>1, <1>2

LEMMA NumberContents == ASSUME NEW v, NEW r, NEW d PROVE Contents(L!Number(v), r, d) = v % 65536
BY OperandParts DEF Contents

LEMMA MemoryContents ==
  ASSUME NEW o, o.kind = "memory", o.w \in {0, 1}, NEW r, NEW d
  PROVE  Contents(o, r, d) =
           IF o.w = 1 THEN Pair(At(d, Cell(o, r)), At(d, Cell(o, r) + 1)) ELSE At(d, Cell(o, r))
<1>1. CASE o.w = 1 BY <1>1 DEF Contents
<1>2. CASE o.w = 0 BY <1>2 DEF Contents
<1> QED BY <1>1, <1>2

LEMMA RegisterRead ==
  ASSUME NEW w \in {0, 1}, NEW i
  PROVE  Contents(L!Register(w, i), reg, data) = ReadRegister(w, i)
BY RegisterContents DEF ReadRegister

LEMMA EARead ==
  ASSUME TypeOK, NEW w \in {0, 1}, Operand(w)
  PROVE  Contents(L!EA(AtPc, w), reg, data) = ReadEA(w)
<1>1. CASE Mod = 3
  <2>1. L!EA(AtPc, w) = L!Register(w, Rom) BY <1>1, PrintedEA
  <2> QED BY <1>1, <2>1, RegisterRead DEF ReadEA
<1>2. CASE Mod # 3
  <2> DEFINE o == L!EA(AtPc, w)
  <2>1. o.kind = "memory" /\ o.w = w BY <1>2, PrintedEA, OperandParts
  <2>2. Cell(o, reg) = Address
    <3>1. ~Refused /\ reg \in Registers BY <1>2, TypeFacts DEF Operand
    <3> QED BY <1>2, <3>1, SameCell DEF Address
  <2> HIDE DEF o
  <2>3. Contents(o, reg, data) = ReadData(w, Address) BY <2>1, <2>2, MemoryContents DEF ReadData
  <2> QED BY <1>2, <2>3 DEF ReadEA, o
<1> QED BY <1>1, <1>2
-----------------------------------------------------------------------------
\* The value a step has left in a printed operand; the cell is the one it had before.
LeftIn(o) == IF o.kind = "memory" THEN Contents(o, reg, data') ELSE Contents(o, reg', data')

LEMMA StoredAt ==
  ASSUME NEW m, NEW a, NEW v
  PROVE  At(Store(m, a, v), a) = v
BY DEF At, Store

LEMMA Halves ==
  ASSUME NEW v \in Int
  PROVE  Pair(LowByte(v), HighByte(v)) = v % 65536
BY DEF Pair, LowByte, HighByte

LEMMA CellLeft ==
  ASSUME NEW o, o.kind = "memory", o.w \in {0, 1}, NEW a \in Int, Cell(o, reg) = a,
         NEW v \in Int, data' = WriteData(o.w, a, v)
  PROVE  LeftIn(o) = v % Width(o.w)
<1>1. CASE o.w = 1
  <2> DEFINE m == Store(data, a, LowByte(v))
  <2>1. data' = Store(m, a + 1, HighByte(v)) BY <1>1 DEF WriteData, StoreWord
  <2>2. At(m, a) = LowByte(v) BY StoredAt
  <2> HIDE DEF m
  <2>3. At(data', a + 1) = HighByte(v) BY <2>1, StoredAt
  <2>4. At(data', a) = LowByte(v)
    <3>1. a # a + 1 OBVIOUS
    <3> QED BY <2>1, <2>2, <3>1, StoreKeeps
  <2>5. LeftIn(o) = Pair(At(data', a), At(data', a + 1)) BY <1>1, MemoryContents DEF LeftIn
  <2> QED BY <1>1, <2>3, <2>4, <2>5, Halves DEF Width
<1>2. CASE o.w = 0
  <2>1. At(data', a) = LowByte(v) BY <1>2, StoredAt DEF WriteData
  <2>2. LeftIn(o) = At(data', a) BY <1>2, MemoryContents DEF LeftIn
  <2> QED BY <1>2, <2>1, <2>2 DEF Width, LowByte
<1> QED BY <1>1, <1>2

LEMMA RegisterLeft ==
  ASSUME TypeOK, NEW w \in {0, 1}, NEW i \in 0 .. 7, NEW v \in Int,
         reg' = WithRegister(reg, w, i, v)
  PROVE  LeftIn(L!Register(w, i)) = v % Width(w)
<1>1. reg \in Registers BY TypeFacts
<1>2. LeftIn(L!Register(w, i)) =
        IF w = 1 THEN reg'[i] ELSE IF i < 4 THEN LowByte(reg'[i]) ELSE HighByte(reg'[i - 4])
  <2>1. LeftIn(L!Register(w, i)) = Contents(L!Register(w, i), reg', data')
    BY OperandParts DEF LeftIn
  <2> QED BY <2>1, RegisterContents
<1>3. CASE w = 1
  <2>1. reg' = [reg EXCEPT ![i] = v % 65536] BY <1>3 DEF WithRegister
  <2>2. reg'[i] = v % 65536 BY <1>1, <2>1 DEF Registers
  <2> QED BY <1>2, <1>3, <2>2 DEF Width
<1>4. CASE w = 0 /\ i < 4
  <2> DEFINE h == HighByte(reg[i])
  <2>1. reg' = [reg EXCEPT ![i] = Pair(LowByte(v), h)] BY <1>4 DEF WithRegister
  <2>2. reg'[i] = Pair(LowByte(v), h) BY <1>1, <2>1 DEF Registers
  <2>3. h \in Int BY RegisterIsWord, HalvesAreBytes, InByte
  <2> HIDE DEF h
  <2>4. LowByte(Pair(LowByte(v), h)) = v % 256 BY <2>3 DEF Pair, LowByte
  <2> QED BY <1>2, <1>4, <2>2, <2>4 DEF Width
<1>5. CASE w = 0 /\ i >= 4
  <2> DEFINE l == LowByte(reg[i - 4])
  <2>1. reg' = [reg EXCEPT ![i - 4] = Pair(l, LowByte(v))] BY <1>5 DEF WithRegister
  <2>2. i - 4 \in 0 .. 7 BY <1>5
  <2>3. reg'[i - 4] = Pair(l, LowByte(v)) BY <1>1, <2>1, <2>2 DEF Registers
  <2>4. l \in Int /\ 0 <= l /\ l < 256 BY <2>2, RegisterIsWord, HalvesAreBytes, InByte
  <2> HIDE DEF l
  <2>5. HighByte(Pair(l, LowByte(v))) = v % 256 BY <2>4 DEF Pair, LowByte, HighByte
  <2>6. ~(i < 4) BY <1>5
  <2> QED BY <1>2, <1>5, <2>3, <2>5, <2>6 DEF Width
<1> QED BY <1>3, <1>4, <1>5

LEMMA EALeft ==
  ASSUME TypeOK, NEW w \in {0, 1}, Operand(w), NEW v \in Int, WriteEA(w, v)
  PROVE  LeftIn(L!EA(AtPc, w)) = v % Width(w) /\ L!EA(AtPc, w).w = w
<1>1. CASE Mod = 3
  <2>1. L!EA(AtPc, w) = L!Register(w, Rom) BY <1>1, PrintedEA
  <2>2. reg' = WithRegister(reg, w, Rom, v) BY <1>1 DEF WriteEA
  <2>3. Rom \in 0 .. 7 BY DecodeType
  <2> QED BY <2>1, <2>2, <2>3, RegisterLeft, OperandParts
<1>2. CASE Mod # 3
  <2> DEFINE o == L!EA(AtPc, w)
  <2>1. o.kind = "memory" /\ o.w = w BY <1>2, PrintedEA, OperandParts
  <2>2. reg \in Registers /\ ~Refused BY <1>2, TypeFacts DEF Operand
  <2>3. Cell(o, reg) = Address BY <1>2, <2>2, SameCell DEF Address
  <2>4. Address \in Int BY <2>2, AddressType, WordIsInt DEF Address
  <2>5. data' = WriteData(w, Address, v) BY <1>2 DEF WriteEA
  <2> HIDE DEF o
  <2>6. LeftIn(o) = v % Width(w) BY <2>1, <2>3, <2>4, <2>5, CellLeft
  <2> QED BY <2>1, <2>6 DEF o
<1> QED BY <1>1, <1>2
-----------------------------------------------------------------------------
\* What a mov must show: the value of one operand is in the other.
Carried(to, from) == LeftIn(to) = Contents(from, reg, data) % Width(to.w)

CarriesListed == \A from \in {Shown.ops[2]}, to \in {Shown.ops[1]} : Carried(to, from)

LEMMA CarriesOps ==
  ASSUME NEW n, NEW to, NEW from, Lined(n, <<to, from>>), Carried(to, from)
  PROVE  CarriesListed
BY LinedParts DEF CarriesListed

LEMMA MovRegCarries == ASSUME TypeOK, MovReg PROVE CarriesListed
<1> DEFINE ea == L!EA(AtPc, W)
           r == L!Register(W, Reg)
<1>1. W \in {0, 1} /\ Reg \in 0 .. 7 /\ Operand(W) BY DecodeType DEF MovReg
<1>2. Lined(2 + DispLen, L!EitherWay(AtPc)) BY MoveLines DEF MovReg
<1>3. ReadEA(W) \in Int /\ ReadRegister(W, Reg) \in Int
  BY <1>1, ReadEAType, ReadRegisterType, WordIsInt
<1>4. CASE D = 1
  <2>1. L!EitherWay(AtPc) = <<r, ea>> BY <1>4, SameFields DEF L!EitherWay
  <2>2. reg' = WithRegister(reg, W, Reg, ReadEA(W)) BY <1>4 DEF MovReg
  <2>3. LeftIn(r) = ReadEA(W) % Width(W) BY <1>1, <1>3, <2>2, RegisterLeft
  <2>4. Contents(ea, reg, data) = ReadEA(W) BY <1>1, EARead
  <2>5. r.w = W BY OperandParts
  <2>6. Carried(r, ea) BY <2>3, <2>4, <2>5 DEF Carried
  <2> QED BY <1>2, <2>1, <2>6, CarriesOps
<1>5. CASE D # 1
  <2>1. L!EitherWay(AtPc) = <<ea, r>> BY <1>5, SameFields DEF L!EitherWay
  <2>2. WriteEA(W, ReadRegister(W, Reg)) BY <1>5 DEF MovReg
  <2>3. LeftIn(ea) = ReadRegister(W, Reg) % Width(W) /\ ea.w = W BY <1>1, <1>3, <2>2, EALeft
  <2>4. Contents(r, reg, data) = ReadRegister(W, Reg) BY <1>1, RegisterRead
  <2>5. Carried(ea, r) BY <2>3, <2>4 DEF Carried
  <2> QED BY <1>2, <2>1, <2>5, CarriesOps
<1> QED BY <1>4, <1>5

\* The direct address of a0 .. a3 is printed with a sign.
LEMMA MovAccCell ==
  ASSUME TypeOK
  PROVE  Cell(L!Memory(W, 8, L!Signed(L!Pair(AtPc[1], AtPc[2]), 65536)), reg) = FetchedWord(1)
<1> DEFINE cell == L!Memory(W, 8, L!Signed(L!Pair(AtPc[1], AtPc[2]), 65536))
           a == FetchedWord(1)
<1>1. a \in Int /\ 0 <= a /\ a < 65536 BY FetchedType, InWord
<1>2. L!Signed(L!Pair(AtPc[1], AtPc[2]), 65536) = Signed(a, 65536)
  BY SameFields, SameCasts DEF FetchedWord
<1>3. cell.n = 8 /\ cell.disp = Signed(a, 65536) BY <1>2, OperandParts
<1> HIDE DEF cell, a
<1>4. Cell(cell, reg) = (0 + Signed(a, 65536)) % 65536 BY <1>3 DEF Cell, PrintedBase
<1>5. Cell(cell, reg) = a BY <1>1, <1>4 DEF Signed
<1> QED BY <1>5 DEF cell, a

LEMMA MovAccCarries == ASSUME TypeOK, MovAcc PROVE CarriesListed
<1> DEFINE cell == L!Memory(W, 8, L!Signed(L!Pair(AtPc[1], AtPc[2]), 65536))
           acc == L!Register(W, 0)
           a == FetchedWord(1)
<1>1. W \in {0, 1} /\ D \in {0, 1} BY DecodeType
<1>2. Lined(3, L!AccumulatorWithMemory(AtPc)) BY AccumulatorLines DEF MovAcc
<1>3. a \in Int BY FetchedType, InWord
<1>4. Cell(cell, reg) = a BY MovAccCell
<1>5. cell.kind = "memory" /\ cell.w = W /\ acc.w = W BY OperandParts
<1>6. ReadData(W, a) \in Int /\ ReadRegister(W, AX) \in Int
  BY <1>1, NamedRegisters, ReadDataType, ReadRegisterType, WordIsInt
<1>7. CASE D = 0
  <2>1. L!AccumulatorWithMemory(AtPc) = <<acc, cell>>
    BY <1>7, SameFields DEF L!AccumulatorWithMemory, L!Accumulator
  <2>2. reg' = WithRegister(reg, W, 0, ReadData(W, a)) BY <1>7 DEF MovAcc, AX
  <2>3. LeftIn(acc) = ReadData(W, a) % Width(W) BY <1>1, <1>6, <2>2, RegisterLeft
  <2>4. Contents(cell, reg, data) = ReadData(W, a)
    <3> HIDE DEF cell, a
    <3> QED BY <1>1, <1>4, <1>5, MemoryContents DEF ReadData
  <2>5. Carried(acc, cell) BY <1>5, <2>3, <2>4 DEF Carried
  <2> QED BY <1>2, <2>1, <2>5, CarriesOps
<1>8. CASE D = 1
  <2>1. L!AccumulatorWithMemory(AtPc) = <<cell, acc>>
    BY <1>8, SameFields DEF L!AccumulatorWithMemory, L!Accumulator
  <2>2. data' = WriteData(W, a, ReadRegister(W, AX)) BY <1>8 DEF MovAcc
  <2>3. LeftIn(cell) = ReadRegister(W, AX) % Width(W)
    <3> HIDE DEF cell, a
    <3> QED BY <1>1, <1>3, <1>4, <1>5, <1>6, <2>2, CellLeft
  <2>4. Contents(acc, reg, data) = ReadRegister(W, AX) BY <1>1, RegisterRead DEF AX
  <2>5. Carried(cell, acc) BY <1>5, <2>3, <2>4 DEF Carried
  <2> QED BY <1>2, <2>1, <2>5, CarriesOps
<1> QED BY <1>1, <1>7, <1>8

\* The immediate is the number that is printed.
LEMMA SameData ==
  ASSUME NEW w \in {0, 1}, NEW k \in 0 .. 6
  PROVE  L!DataAt(AtPc, k, w) = Immediate(w, k)
<1>1. AtPc[k] = Fetched(k) /\ AtPc[k + 1] = Fetched(k + 1) BY SameFields
<1> QED BY <1>1, SameCasts DEF L!DataAt, Immediate, FetchedWord

LEMMA MovImmRegCarries == ASSUME TypeOK, MovImmReg PROVE CarriesListed
<1> DEFINE w == (Op \div 8) % 2
           r == L!Register(w, Op % 8)
           v == Immediate(w, 1)
<1>1. w \in {0, 1} /\ Op % 8 \in 0 .. 7 BY DecodeType
<1>2. Lined(2 + w, L!RegisterWithData(AtPc)) BY ImmediateMoveLines DEF MovImmReg
<1>3. L!RegisterWithData(AtPc) = <<r, L!Number(v)>>
  <2>1. L!DataAt(AtPc, 1, w) = v BY <1>1, SameData
  <2> QED BY <2>1, SameFields DEF L!RegisterWithData
<1>4. reg' = WithRegister(reg, w, Op % 8, v) BY DEF MovImmReg
<1>5. v \in Int /\ 0 <= v /\ v < 65536 BY <1>1, ImmediateType, InWord
<1>6. LeftIn(r) = v % Width(w) /\ r.w = w BY <1>1, <1>4, <1>5, RegisterLeft, OperandParts
<1>7. Contents(L!Number(v), reg, data) = v BY <1>5, NumberContents
<1>8. Carried(r, L!Number(v)) BY <1>6, <1>7 DEF Carried
<1> QED BY <1>2, <1>3, <1>8, CarriesOps

LEMMA MovImmEACarries == ASSUME TypeOK, MovImmEA PROVE CarriesListed
<1> DEFINE ea == L!EA(AtPc, W)
           v == Immediate(W, ImmAt)
<1>1. W \in {0, 1} /\ DispLen \in 0 .. 2 /\ Operand(W) BY DecodeType DEF MovImmEA
<1>2. Lined(3 + DispLen + W, L!EAWithData(AtPc, L!DataAt(AtPc, 2 + DispLen, W)))
  BY ImmediateMoveLines DEF MovImmEA
<1>3. L!EAWithData(AtPc, L!DataAt(AtPc, 2 + DispLen, W)) = <<ea, L!Number(v)>>
  <2>1. L!DataAt(AtPc, 2 + DispLen, W) = v BY <1>1, SameData DEF ImmAt
  <2> QED BY <2>1, SameFields DEF L!EAWithData
<1>4. WriteEA(W, v) BY DEF MovImmEA
<1>5. v \in Int /\ 0 <= v /\ v < 65536 BY <1>1, ImmediateType, InWord
<1>6. LeftIn(ea) = v % Width(W) /\ ea.w = W BY <1>1, <1>4, <1>5, EALeft
<1>7. Contents(L!Number(v), reg, data) = v BY <1>5, NumberContents
<1>8. Carried(ea, L!Number(v)) BY <1>6, <1>7 DEF Carried
<1> QED BY <1>2, <1>3, <1>8, CarriesOps

LEMMA OnlyMovs ==
  ASSUME TypeOK, Next, Executes, Moves
  PROVE  MovReg \/ MovAcc \/ MovImmReg \/ MovImmEA
<1>1. Op \in Int BY DecodeType
<1>2. Op >= \h88 /\ Op <= \hc7 /\ Op \notin \h8c .. \h9f /\ Op \notin \ha4 .. \haf
      /\ Op \notin \hc0 .. \hc5
  BY <1>1 DEF Moves
<1>3. Ready /\ status' = "running" /\ Op # \hcd BY DEF Executes
<1>4. ~Arithmetic
  BY <1>1, <1>2, <1>3
     DEF Arithmetic, AluReg, AluAcc, AluImm, IncDecReg, IncDecEA, TestReg, TestAcc, TestImm,
         Not, Negate, Multiply, Divide, SignedDivide, Dividing, DivideCrash, Shift
<1>5. ~(Lea \/ XchgEA \/ XchgAcc \/ Convert \/ Direction \/ PushReg \/ PushEA \/ PopReg \/ PopEA)
  BY <1>1, <1>2
     DEF Lea, XchgEA, XchgAcc, Convert, Direction, PushReg, PushEA, PopReg, PopEA
<1>6. ~Control
  BY <1>1, <1>2 DEF Control, JumpIf, Loop, JumpIfCXZero, Jump, JumpEA, Call, CallEA, Ret
<1>7. ~String
  BY <1>1, <1>2, <1>3 DEF String, Repeat, StringStart, StringElement, StringOps, Ready
<1>8. ~(SystemCall \/ ExecCall \/ LastCall)
  BY <1>3 DEF SystemCall, ExecCall, LastCall, Interrupting
<1>9. ~Ending BY <1>3 DEF Ending, Refuse, Overrun, Stopped, Ready
<1> QED BY <1>4, <1>5, <1>6, <1>7, <1>8, <1>9 DEF Next, Transfer

\* The listing says where every mov takes its value from and where it leaves it,
\* whatever the program, its registers and its memory.
THEOREM MovesListed == Spec => MovesAsListed
<1>1. Spec => []TypeOK BY TypeCorrect
<1>2. ASSUME TypeOK, [Next]_vars PROVE [Executes /\ Moves => CarriesListed]_vars
  BY <1>2, OnlyMovs, MovRegCarries, MovAccCarries, MovImmRegCarries, MovImmEACarries
<1>3. [Executes /\ Moves => CarriesListed]_vars
      => [Executes /\ Moves =>
            \A from \in {Shown.ops[2]}, to \in {Shown.ops[1]} :
              (IF to.kind = "memory" THEN Contents(to, reg, data') ELSE Contents(to, reg', data'))
                = Contents(from, reg, data) % Width(to.w)]_vars
  BY DEF CarriesListed, Carried, LeftIn
<1> QED BY <1>1, <1>2, <1>3, PTL DEF Spec, MovesAsListed
-----------------------------------------------------------------------------
\* The registers and bytes an instruction may change by its line.
MayChange == Implied \cup UNION {RegistersOf(o) : o \in Changed}
MayStore == BelowSP \cup UNION {BytesIn(o) : o \in Changed}

\* The registers a step changes are in S.
Changes(S) == \A i \in 0 .. 7 : reg'[i] # reg[i] => i \in S

Named == Changes(MayChange) /\ StoresOnly(MayStore)

LEMMA LeavesAll == ASSUME reg' = reg, data' = data PROVE Named
BY DEF Named, Changes, StoresOnly

LEMMA FirstNamed ==
  ASSUME NEW ops, Shown.ops = ops, 1 \in DOMAIN ops
  PROVE  RegistersOf(ops[1]) \subseteq MayChange /\ BytesIn(ops[1]) \subseteq MayStore
<1>1. ops[1] \in Changed BY DEF Changed
<1> QED BY <1>1 DEF MayChange, MayStore

LEMMA SecondNamed ==
  ASSUME NEW ops, Shown.ops = ops, 2 \in DOMAIN ops, Exchanges
  PROVE  RegistersOf(ops[2]) \subseteq MayChange /\ BytesIn(ops[2]) \subseteq MayStore
<1>1. ops[2] \in Changed BY DEF Changed
<1> QED BY <1>1 DEF MayChange, MayStore

LEMMA NamedRegister ==
  ASSUME NEW w, NEW i
  PROVE  /\ RegistersOf(L!Register(w, i)) = IF w = 1 THEN {i} ELSE {i % 4}
         /\ BytesIn(L!Register(w, i)) = {}
<1> DEFINE o == L!Register(w, i)
<1>1. o.kind = "register" /\ o.w = w /\ o.n = i BY OperandParts
<1> HIDE DEF o
<1>2. RegistersOf(o) = IF w = 1 THEN {i} ELSE {i % 4}
  <2>1. o.kind # "register" <=> FALSE BY <1>1
  <2> QED BY <1>1, <2>1, Zenon DEF RegistersOf
<1>3. BytesIn(o) = {}
  <2>1. o.kind # "memory" BY <1>1
  <2> QED BY <2>1, Zenon DEF BytesIn
<1> QED BY <1>2, <1>3 DEF o

\* A write of one register.
LEMMA WithRegisterChanges ==
  ASSUME NEW r \in Registers, NEW w \in {0, 1}, NEW i \in 0 .. 7, NEW v, NEW j \in 0 .. 7,
         WithRegister(r, w, i, v)[j] # r[j]
  PROVE  j \in RegistersOf(L!Register(w, i))
<1>1. RegistersOf(L!Register(w, i)) = IF w = 1 THEN {i} ELSE {i % 4} BY NamedRegister
<1>2. CASE w = 1 BY <1>1, <1>2 DEF WithRegister, Registers
<1>3. CASE w = 0 /\ i < 4
  <2>1. j = i BY <1>3 DEF WithRegister, Registers
  <2>2. i % 4 = i BY <1>3
  <2> QED BY <1>1, <1>3, <2>1, <2>2
<1>4. CASE w = 0 /\ i >= 4
  <2>1. ~(i < 4) /\ i % 4 = i - 4 BY <1>4
  <2>2. j = i - 4 BY <1>4, <2>1 DEF WithRegister, Registers
  <2> QED BY <1>1, <1>4, <2>1, <2>2
<1> QED BY <1>2, <1>3, <1>4

LEMMA OneWordChanges ==
  ASSUME NEW r \in Registers, NEW i, NEW u, NEW j \in 0 .. 7, WithWord(r, i, u)[j] # r[j]
  PROVE  j = i
BY DEF WithWord, Registers

LEMMA TwoWordsChange ==
  ASSUME NEW r \in Registers, NEW i, NEW u, NEW k, NEW v, NEW j \in 0 .. 7,
         WithWord(WithWord(r, i, u), k, v)[j] # r[j]
  PROVE  j \in {i, k}
BY DEF WithWord, Registers

\* The passes that change one register, the first their line prints.
LEMMA RegisterNamed ==
  ASSUME TypeOK, NEW ops, Shown.ops = ops, 1 \in DOMAIN ops,
         NEW w \in {0, 1}, NEW i \in 0 .. 7, ops[1] = L!Register(w, i),
         NEW v, reg' = WithRegister(reg, w, i, v), data' = data
  PROVE  Named
<1>1. Changes(RegistersOf(L!Register(w, i))) BY TypeFacts, WithRegisterChanges DEF Changes
<1>2. RegistersOf(L!Register(w, i)) \subseteq MayChange BY FirstNamed
<1>3. StoresOnly(MayStore) BY DEF StoresOnly
<1> QED BY <1>1, <1>2, <1>3 DEF Named, Changes

LEMMA WordNamed ==
  ASSUME TypeOK, NEW ops, Shown.ops = ops, 1 \in DOMAIN ops,
         NEW i \in 0 .. 7, ops[1] = L!Register(1, i),
         NEW v, reg' = WithWord(reg, i, v), data' = data
  PROVE  Named
<1>1. reg' = WithRegister(reg, 1, i, v) BY DEF WithWord, WithRegister
<1> QED BY <1>1, RegisterNamed

\* The bytes a printed memory operand stands for are those a write changes.
LEMMA EAStores ==
  ASSUME TypeOK, NEW w \in {0, 1}, Mod # 3, ~Refused, ~Beyond(w, Address),
         NEW v, data' = WriteData(w, Address, v)
  PROVE  StoresOnly(BytesIn(L!EA(AtPc, w)))
<1> DEFINE o == L!EA(AtPc, w)
<1>1. o.kind = "memory" /\ o.w = w BY PrintedEA, OperandParts
<1>2. reg \in Registers BY TypeFacts
<1>3. Cell(o, reg) = Address BY <1>2, SameCell DEF Address
<1>4. Address \in Word BY <1>2, AddressType DEF Address
<1>5. Address \in Int /\ 0 <= Address /\ Address < 65536 BY <1>4, InWord
<1>6. StoresOnly({Address, (Address + w) % 65536}) BY <1>4, WriteDataStores
<1>7. {Address, (Address + w) % 65536} \subseteq BytesIn(o)
  <2>1. BytesIn(o) = IF w = 1 THEN {Address, Address + 1} ELSE {Address}
    BY <1>1, <1>3, Zenon DEF BytesIn
  <2>2. w = 1 => (Address + w) % 65536 = Address + 1 BY <1>5 DEF Beyond
  <2>3. w = 0 => (Address + w) % 65536 = Address BY <1>5
  <2> QED BY <2>1, <2>2, <2>3
<1> QED BY <1>6, <1>7 DEF StoresOnly

\* The passes that change the r/m operand, when that is printed first.
LEMMA EANamed ==
  ASSUME TypeOK, NEW w \in {0, 1}, Operand(w), NEW v, WriteEA(w, v),
         NEW ops, Shown.ops = ops, 1 \in DOMAIN ops, ops[1] = L!EA(AtPc, w)
  PROVE  Named
<1>1. CASE Mod = 3
  <2>1. ops[1] = L!Register(w, Rom) BY <1>1, PrintedEA
  <2>2. reg' = WithRegister(reg, w, Rom, v) /\ data' = data BY <1>1 DEF WriteEA
  <2>3. Rom \in 0 .. 7 BY DecodeType
  <2> QED BY <2>1, <2>2, <2>3, RegisterNamed
<1>2. CASE Mod # 3
  <2>1. reg' = reg /\ data' = WriteData(w, Address, v) BY <1>2 DEF WriteEA
  <2>2. ~Refused /\ ~Beyond(w, Address) BY <1>2 DEF Operand
  <2>3. StoresOnly(BytesIn(L!EA(AtPc, w))) BY <1>2, <2>1, <2>2, EAStores
  <2>4. BytesIn(L!EA(AtPc, w)) \subseteq MayStore BY FirstNamed
  <2> QED BY <2>1, <2>3, <2>4 DEF Named, Changes, StoresOnly
<1> QED BY <1>1, <1>2

\* The passes that change registers the 8086 does not name.
LEMMA ImpliedNamed ==
  ASSUME Changes(Implied), data' = data
  PROVE  Named
BY DEF Named, Changes, StoresOnly, MayChange

LEMMA ImpliedRegisters ==
  /\ Pushes \/ Pops => SP \in Implied
  /\ Op \in {\hf6, \hf7} /\ Reg \in {4, 6, 7} => AX \in Implied
  /\ Op = \hf7 /\ Reg \in {4, 6, 7} => DX \in Implied
  /\ Op = \h98 => AX \in Implied
  /\ Op = \h99 => DX \in Implied
  /\ Op = \he2 => CX \in Implied
BY DEF Implied

LEMMA PushNamed ==
  ASSUME TypeOK, Pushes, NEW v, Pushing(v)
  PROVE  Named
<1>1. BelowSP = StackWord BY DEF BelowSP, StackWord
<1>2. StoresOnly(StackWord) BY PushingStores
<1>3. StoresOnly(MayStore) BY <1>1, <1>2 DEF StoresOnly, MayStore
<1>4. reg' = WithWord(reg, SP, reg[SP] - 2) BY DEF Pushing
<1>5. SP \in MayChange BY ImpliedRegisters DEF MayChange
<1>6. \A j \in 0 .. 7 : reg'[j] # reg[j] => j = SP
  <2>1. reg \in Registers BY TypeFacts
  <2> QED BY <1>4, <2>1, OneWordChanges
<1>7. Changes(MayChange) BY <1>5, <1>6 DEF Changes
<1> QED BY <1>3, <1>7 DEF Named
-----------------------------------------------------------------------------
\* The lines whose first operand is what the d bit says, or the r/m operand.
LEMMA EitherWayNamed ==
  ASSUME TypeOK, Operand(W), Shown.ops = L!EitherWay(AtPc), NEW v,
         \/ reg' = reg /\ data' = data
         \/ D = 1 /\ reg' = WithRegister(reg, W, Reg, v) /\ data' = data
         \/ D # 1 /\ WriteEA(W, v)
  PROVE  Named
<1> DEFINE ea == L!EA(AtPc, W)
           r == L!Register(W, Reg)
<1>1. W \in {0, 1} /\ Reg \in 0 .. 7 BY DecodeType
<1>2. CASE reg' = reg /\ data' = data BY <1>2, LeavesAll
<1>3. CASE D = 1 /\ reg' = WithRegister(reg, W, Reg, v) /\ data' = data
  <2>1. Shown.ops = <<r, ea>> BY <1>3, SameFields DEF L!EitherWay
  <2> QED BY <1>1, <1>3, <2>1, RegisterNamed
<1>4. CASE D # 1 /\ WriteEA(W, v)
  <2>1. Shown.ops = <<ea, r>> BY <1>4, SameFields DEF L!EitherWay
  <2> QED BY <1>1, <1>4, <2>1, EANamed
<1> QED BY <1>2, <1>3, <1>4

LEMMA EAFirstNamed ==
  ASSUME TypeOK, Operand(W), NEW v, WriteEA(W, v), NEW ops, Shown.ops = ops,
         \/ \E x : ops = L!EAWithData(AtPc, x)
         \/ ops = L!OneEA(AtPc, W)
         \/ ops = L!ShiftOperands(AtPc)
  PROVE  Named
<1>1. W \in {0, 1} BY DecodeType
<1>2. 1 \in DOMAIN ops /\ ops[1] = L!EA(AtPc, W)
  BY SameFields DEF L!EAWithData, L!OneEA, L!ShiftOperands
<1> QED BY <1>1, <1>2, EANamed

LEMMA AccumulatorNamed ==
  ASSUME TypeOK, NEW ops, Shown.ops = ops, 1 \in DOMAIN ops, ops[1] = L!Register(W, 0),
         NEW v, reg' = WithRegister(reg, W, AX, v), data' = data
  PROVE  Named
BY DecodeType, RegisterNamed DEF AX

LEMMA MultiplyNamed == ASSUME TypeOK, Multiply \/ Divide \/ SignedDivide PROVE Named
<1>1. Op \in {\hf6, \hf7} /\ Reg \in {4, 6, 7} /\ data' = data
  BY DEF Multiply, Divide, SignedDivide, Dividing, WriteEA
<1>2. AX \in Implied /\ (W = 1 => DX \in Implied)
  <2>1. W = 1 => Op = \hf7 BY <1>1 DEF W
  <2> QED BY <1>1, <2>1, ImpliedRegisters
<1>3. \/ \E u : reg' = WithWord(reg, AX, u)
      \/ \E u : reg' = WithRegister(reg, 0, AX, u)
      \/ W = 1 /\ \E u, v : reg' = WithWord(WithWord(reg, AX, u), DX, v)
      \/ W = 1 /\ \E u, v : reg' = WithWord(WithWord(reg, DX, u), AX, v)
  <2>1. CASE Multiply
    <3>1. CASE W = 1 BY <2>1, <3>1 DEF Multiply
    <3>2. CASE W # 1 BY <2>1, <3>2 DEF Multiply
    <3> QED BY <3>1, <3>2
  <2>2. CASE Divide
    <3>1. CASE W = 1 BY <2>2, <3>1 DEF Divide
    <3>2. CASE W # 1 BY <2>2, <3>2 DEF Divide
    <3> QED BY <3>1, <3>2
  <2>3. CASE SignedDivide
    <3>1. CASE W = 1 BY <2>3, <3>1 DEF SignedDivide
    <3>2. CASE W # 1 BY <2>3, <3>2 DEF SignedDivide
    <3> QED BY <3>1, <3>2
  <2> QED BY <2>1, <2>2, <2>3
<1>4. reg \in Registers BY TypeFacts
<1>5. ASSUME NEW u, reg' = WithRegister(reg, 0, AX, u) PROVE Changes({AX})
  <2>1. RegistersOf(L!Register(0, AX)) = {AX} BY NamedRegister DEF AX
  <2> QED BY <1>4, <1>5, <2>1, NamedRegisters, WithRegisterChanges DEF Changes
<1>6. ASSUME NEW u, reg' = WithWord(reg, AX, u) PROVE Changes({AX})
  BY <1>4, <1>6, OneWordChanges DEF Changes
<1>7. ASSUME NEW u, NEW v,
             \/ reg' = WithWord(WithWord(reg, AX, u), DX, v)
             \/ reg' = WithWord(WithWord(reg, DX, u), AX, v)
      PROVE  Changes({AX, DX})
  <2>1. CASE reg' = WithWord(WithWord(reg, AX, u), DX, v)
    BY <1>4, <2>1, TwoWordsChange DEF Changes
  <2>2. CASE reg' = WithWord(WithWord(reg, DX, u), AX, v)
    BY <1>4, <2>2, TwoWordsChange DEF Changes
  <2> QED BY <1>7, <2>1, <2>2
<1>8. Changes({AX}) \/ (W = 1 /\ Changes({AX, DX})) BY <1>3, <1>5, <1>6, <1>7
<1>9. Changes(Implied) BY <1>2, <1>8 DEF Changes
<1> QED BY <1>1, <1>9, ImpliedNamed

LEMMA ArithmeticNamed == ASSUME TypeOK, Arithmetic, Executes, ~Unlisted PROVE Named
<1>1. Op \in Int /\ W \in {0, 1} /\ Reg \in 0 .. 7 BY DecodeType
<1>2. CASE AluReg
  <2>1. Op < 64 /\ Op % 8 <= 3 /\ Operand(W) BY <1>2 DEF AluReg
  <2>2. Shown.ops = L!EitherWay(AtPc) BY <2>1, ArithmeticLines, LinedParts
  <2>3. \E v : \/ reg' = reg /\ data' = data
               \/ D = 1 /\ reg' = WithRegister(reg, W, Reg, v) /\ data' = data
               \/ D # 1 /\ WriteEA(W, v)
    BY <1>2 DEF AluReg
  <2> QED BY <2>1, <2>2, <2>3, EitherWayNamed
<1>3. CASE AluAcc
  <2>1. Op < 64 /\ Op % 8 \in {4, 5} /\ Kind # 6 /\ data' = data BY <1>3 DEF AluAcc
  <2>2. Op # \h35 BY <2>1 DEF Kind
  <2>3. Shown.ops = L!AccumulatorWithData(AtPc) BY <2>1, <2>2, ArithmeticLines, LinedParts
  <2>4. Shown.ops = <<L!Register(W, 0), L!Number(L!DataAt(AtPc, 1, W))>>
    BY <2>3, SameFields DEF L!AccumulatorWithData, L!Accumulator
  <2>5. reg' = reg \/ \E v : reg' = WithRegister(reg, W, AX, v) BY <1>3 DEF AluAcc
  <2> QED BY <2>1, <2>4, <2>5, AccumulatorNamed, LeavesAll
<1>4. CASE AluImm
  <2>1. Op \in {\h80, \h81, \h83} /\ Reg # 6 /\ ~(Reg = 1 /\ Op = \h83) /\ Operand(W)
    BY <1>4 DEF AluImm
  <2>2. Shown.ops = L!EAWithData(AtPc, L!DataSW(AtPc, 2 + DispLen)) BY <2>1, ImmediateLines
  <2>3. (reg' = reg /\ data' = data) \/ \E v : WriteEA(W, v) BY <1>4 DEF AluImm
  <2> QED BY <2>1, <2>2, <2>3, EAFirstNamed, LeavesAll
<1>5. CASE IncDecReg
  <2>1. Op \in \h40 .. \h4f /\ data' = data BY <1>5 DEF IncDecReg
  <2>2. Op \in \h40 .. \h5f /\ Op % 8 \in 0 .. 7 BY <1>1, <2>1
  <2>3. Shown.ops = <<L!Register(1, Op % 8)>> BY <2>2, OneRegisterLines, LinedParts
  <2>4. \E v : reg' = WithWord(reg, Op % 8, v) BY <1>5 DEF IncDecReg
  <2> QED BY <2>1, <2>2, <2>3, <2>4, WordNamed
<1>6. CASE IncDecEA
  <2>1. Op \in {\hfe, \hff} /\ Reg \in {0, 1} /\ Operand(W) BY <1>6 DEF IncDecEA
  <2>2. Lined(2 + DispLen, L!OneEA(AtPc, IF Reg < 2 THEN W ELSE 1)) BY <2>1, UnaryLines
  <2>3. Shown.ops = L!OneEA(AtPc, W) BY <2>1, <2>2, LinedParts
  <2>4. \E v : WriteEA(W, v) BY <1>6 DEF IncDecEA
  <2> QED BY <2>1, <2>3, <2>4, EAFirstNamed
<1>7. CASE TestReg \/ TestAcc \/ TestImm
  BY <1>7, LeavesAll DEF TestReg, TestAcc, TestImm, Tested
<1>8. CASE Not \/ Negate
  <2>1. Op \in {\hf6, \hf7} /\ Reg \notin {0, 1} /\ Operand(W) BY <1>8 DEF Not, Negate
  <2>2. Shown.ops = L!OneEA(AtPc, W) BY <2>1, UnaryLines, LinedParts
  <2>3. \E v : WriteEA(W, v) BY <1>8 DEF Not, Negate
  <2> QED BY <2>1, <2>2, <2>3, EAFirstNamed
<1>9. CASE Multiply \/ Divide \/ SignedDivide BY <1>9, MultiplyNamed
<1>10. CASE DivideCrash BY <1>10 DEF DivideCrash, Executes
<1>11. CASE Shift
  <2>1. Op \in \hd0 .. \hd3 /\ Reg # 6 /\ Operand(W) BY <1>11 DEF Shift
  <2>2. Shown.ops = L!ShiftOperands(AtPc) BY <2>1, ShiftLines, LinedParts
  <2>3. (reg' = reg /\ data' = data) \/ \E v : WriteEA(W, v) BY <1>11 DEF Shift
  <2> QED BY <2>1, <2>2, <2>3, EAFirstNamed, LeavesAll
<1> QED BY <1>2, <1>3, <1>4, <1>5, <1>6, <1>7, <1>8, <1>9, <1>10, <1>11 DEF Arithmetic

LEMMA XchgEANamed == ASSUME TypeOK, XchgEA, ~ExchangesBase PROVE Named
<1> DEFINE ea == L!EA(AtPc, W)
           r == WithRegister(reg, W, Reg, ReadEA(W))
           old == ReadRegister(W, Reg)
           ops == <<ea, L!Register(W, Reg)>>
<1>1. W \in {0, 1} /\ Reg \in 0 .. 7 /\ Rom \in 0 .. 7 /\ reg \in Registers
  BY DecodeType, TypeFacts
<1>2. Op \in {\h86, \h87} /\ Operand(W) BY DEF XchgEA
<1>3. Shown.ops = ops
  <2>1. Lined(2 + DispLen, L!EAWithRegister(AtPc)) BY <1>2, MoveLines
  <2> QED BY <2>1, LinedParts, SameFields DEF L!EAWithRegister
<1>4. Exchanges BY <1>2 DEF Exchanges
<1>5. /\ RegistersOf(ea) \subseteq MayChange /\ BytesIn(ea) \subseteq MayStore
      /\ RegistersOf(L!Register(W, Reg)) \subseteq MayChange
  <2>1. 1 \in DOMAIN ops /\ 2 \in DOMAIN ops /\ ops[1] = ea /\ ops[2] = L!Register(W, Reg)
    OBVIOUS
  <2> HIDE DEF ops
  <2> QED BY <1>3, <1>4, <2>1, FirstNamed, SecondNamed
<1>6. r \in Registers
  <2>1. ReadEA(W) \in Int BY <1>1, ReadEAType
  <2> QED BY <1>1, <2>1, WithRegisterType
<1>7. \A j \in 0 .. 7 : r[j] # reg[j] => j \in MayChange
  BY <1>1, <1>5, WithRegisterChanges
<1> HIDE DEF r, ops
<1>8. CASE Mod = 3
  <2>1. reg' = WithRegister(r, W, Rom, old) /\ data' = data BY <1>8 DEF XchgEA, r
  <2>2. ea = L!Register(W, Rom) BY <1>8, PrintedEA
  <2>3. \A j \in 0 .. 7 : reg'[j] # r[j] => j \in MayChange
    BY <1>1, <1>5, <1>6, <2>1, <2>2, WithRegisterChanges
  <2>4. Changes(MayChange) BY <1>7, <2>3 DEF Changes
  <2> QED BY <2>1, <2>4 DEF Named, StoresOnly
<1>9. CASE Mod # 3
  <2>1. reg' = r /\ data' = WriteData(W, AddressUnder(r), old) /\ ~Beyond(W, AddressUnder(r))
    BY <1>9 DEF XchgEA, r
  <2>2. AddressUnder(r) = Address BY <1>2, <1>9, <2>1 DEF ExchangesBase
  <2>3. ~Refused BY <1>2, <1>9 DEF Operand
  <2>4. StoresOnly(BytesIn(ea)) BY <1>1, <1>9, <2>1, <2>2, <2>3, EAStores
  <2> HIDE DEF ea
  <2> QED BY <1>5, <1>7, <2>1, <2>4 DEF Named, Changes, StoresOnly
<1> QED BY <1>8, <1>9

LEMMA PopNamed ==
  ASSUME TypeOK, Pops, NEW ops, Shown.ops = ops, 1 \in DOMAIN ops,
         NEW i \in 0 .. 7, ops[1] = L!Register(1, i),
         NEW v, reg' = WithWord(Popped, i, v), data' = data
  PROVE  Named
<1>1. reg \in Registers BY TypeFacts
<1>2. \A j \in 0 .. 7 : reg'[j] # reg[j] => j \in {SP, i}
  BY <1>1, TwoWordsChange DEF Popped
<1>3. SP \in MayChange BY ImpliedRegisters DEF MayChange
<1>4. i \in MayChange BY FirstNamed, NamedRegister
<1>5. Changes(MayChange) BY <1>2, <1>3, <1>4 DEF Changes
<1> QED BY <1>5 DEF Named, StoresOnly

LEMMA PopEANamed == ASSUME TypeOK, PopEA PROVE Named
<1>1. Op = \h8f /\ Reg = 0 /\ Operand(1) BY DEF PopEA
<1>2. Pops BY <1>1 DEF Pops
<1>3. Shown.ops = <<L!EA(AtPc, 1)>>
  <2>1. Lined(2 + DispLen, L!OneEA(AtPc, 1)) BY <1>1, MoveLines
  <2> QED BY <2>1, LinedParts DEF L!OneEA
<1>4. CASE Mod = 3
  <2>1. reg' = WithWord(Popped, Rom, StackTop) /\ data' = data BY <1>4 DEF PopEA
  <2>2. L!EA(AtPc, 1) = L!Register(1, Rom) /\ Rom \in 0 .. 7 BY <1>4, PrintedEA, DecodeType
  <2> QED BY <1>2, <1>3, <2>1, <2>2, PopNamed
<1>5. CASE Mod # 3
  <2>1. reg' = Popped /\ data' = WriteData(1, Address, StackTop) BY <1>5 DEF PopEA
  <2>2. ~Refused /\ ~Beyond(1, Address) BY <1>1, <1>5 DEF Operand
  <2>3. StoresOnly(BytesIn(L!EA(AtPc, 1))) BY <1>5, <2>1, <2>2, EAStores
  <2>4. BytesIn(L!EA(AtPc, 1)) \subseteq MayStore BY <1>3, FirstNamed
  <2>5. SP \in MayChange BY <1>2, ImpliedRegisters DEF MayChange
  <2>6. \A j \in 0 .. 7 : reg'[j] # reg[j] => j = SP
    BY <2>1, TypeFacts, OneWordChanges DEF Popped
  <2> QED BY <2>3, <2>4, <2>5, <2>6 DEF Named, Changes, StoresOnly
<1> QED BY <1>4, <1>5

LEMMA MovAccNamed == ASSUME TypeOK, MovAcc PROVE Named
<1> DEFINE cell == L!Memory(W, 8, L!Signed(L!Pair(AtPc[1], AtPc[2]), 65536))
           a == FetchedWord(1)
<1>1. Op \in \ha0 .. \ha3 /\ ~Beyond(W, a) /\ W \in {0, 1} BY DecodeType DEF MovAcc
<1>2. Shown.ops = L!AccumulatorWithMemory(AtPc) BY <1>1, AccumulatorLines, LinedParts
<1>3. CASE D = 0
  <2>1. Shown.ops = <<L!Register(W, 0), cell>>
    BY <1>2, <1>3, SameFields DEF L!AccumulatorWithMemory, L!Accumulator
  <2>2. data' = data /\ \E v : reg' = WithRegister(reg, W, AX, v) BY <1>3 DEF MovAcc
  <2> QED BY <2>1, <2>2, AccumulatorNamed
<1>4. CASE D # 0
  <2>1. D = 1 BY <1>4, DecodeType
  <2>2. Shown.ops = <<cell, L!Register(W, 0)>>
    BY <1>2, <2>1, SameFields DEF L!AccumulatorWithMemory, L!Accumulator
  <2>3. reg' = reg /\ data' = WriteData(W, a, ReadRegister(W, AX)) BY <1>4 DEF MovAcc
  <2>4. a \in Word /\ a \in Int /\ 0 <= a /\ a < 65536 BY FetchedType, InWord
  <2>5. StoresOnly({a, (a + W) % 65536}) BY <1>1, <2>3, <2>4, WriteDataStores
  <2>6. Cell(cell, reg) = a BY MovAccCell
  <2>7. BytesIn(cell) \subseteq MayStore BY <2>2, FirstNamed
  <2>8. cell.kind = "memory" /\ cell.w = W BY OperandParts
  <2> HIDE DEF cell, a
  <2>9. BytesIn(cell) = IF W = 1 THEN {a, a + 1} ELSE {a} BY <2>6, <2>8, Zenon DEF BytesIn
  <2>10. W = 1 => (a + W) % 65536 = a + 1 BY <1>1, <2>4 DEF Beyond
  <2>11. W = 0 => (a + W) % 65536 = a BY <2>4
  <2>12. StoresOnly(MayStore) BY <1>1, <2>5, <2>7, <2>9, <2>10, <2>11 DEF StoresOnly
  <2> QED BY <2>3, <2>12 DEF Named, Changes
<1> QED BY <1>3, <1>4

LEMMA TransferNamed == ASSUME TypeOK, Transfer, ~ExchangesBase PROVE Named
<1>1. Op \in Int /\ W \in {0, 1} /\ Reg \in 0 .. 7 BY DecodeType
<1>2. CASE MovReg
  <2>1. Op \in \h88 .. \h8b /\ Operand(W) BY <1>2 DEF MovReg
  <2>2. Shown.ops = L!EitherWay(AtPc) BY <2>1, MoveLines, LinedParts
  <2>3. \E v : \/ D = 1 /\ reg' = WithRegister(reg, W, Reg, v) /\ data' = data
               \/ D # 1 /\ WriteEA(W, v)
    BY <1>2 DEF MovReg
  <2> QED BY <2>1, <2>2, <2>3, EitherWayNamed
<1>3. CASE MovAcc BY <1>3, MovAccNamed
<1>4. CASE MovImmReg
  <2> DEFINE w == (Op \div 8) % 2
  <2>1. w \in {0, 1} /\ Op % 8 \in 0 .. 7 BY <1>1
  <2>2. Shown.ops = <<L!Register(w, Op % 8), L!Number(L!DataAt(AtPc, 1, w))>>
    <3>1. Lined(2 + w, L!RegisterWithData(AtPc)) BY <1>4, ImmediateMoveLines DEF MovImmReg
    <3> QED BY <3>1, LinedParts, SameFields DEF L!RegisterWithData
  <2>3. data' = data /\ \E v : reg' = WithRegister(reg, w, Op % 8, v) BY <1>4 DEF MovImmReg
  <2> HIDE DEF w
  <2> QED BY <2>1, <2>2, <2>3, RegisterNamed
<1>5. CASE MovImmEA
  <2>1. Op \in {\hc6, \hc7} /\ Operand(W) BY <1>5 DEF MovImmEA
  <2>2. Shown.ops = L!EAWithData(AtPc, L!DataAt(AtPc, 2 + DispLen, W))
    BY <2>1, ImmediateMoveLines, LinedParts
  <2>3. \E v : WriteEA(W, v) BY <1>5 DEF MovImmEA
  <2> QED BY <2>1, <2>2, <2>3, EAFirstNamed
<1>6. CASE Lea
  <2>1. Op = \h8d /\ data' = data /\ \E v : reg' = WithWord(reg, Reg, v) BY <1>6 DEF Lea
  <2>2. Shown.ops = <<L!Register(1, Reg), L!EA(AtPc, 1)>> BY <2>1, MoveLines, LinedParts
  <2> QED BY <1>1, <2>1, <2>2, WordNamed
<1>7. CASE XchgEA BY <1>7, XchgEANamed
<1>8. CASE XchgAcc
  <2> DEFINE ops == <<L!Register(1, Op % 8), L!Register(1, 0)>>
  <2>1. Op \in \h90 .. \h97 /\ data' = data BY <1>8 DEF XchgAcc
  <2>2. Shown.ops = ops BY <2>1, AccumulatorLines, LinedParts DEF L!Accumulator
  <2>3. Exchanges BY <2>1 DEF Exchanges
  <2>4. Op % 8 \in MayChange /\ 0 \in MayChange
    <3>1. /\ 1 \in DOMAIN ops /\ 2 \in DOMAIN ops
          /\ ops[1] = L!Register(1, Op % 8) /\ ops[2] = L!Register(1, 0)
      OBVIOUS
    <3> HIDE DEF ops
    <3> QED BY <2>2, <2>3, <3>1, FirstNamed, SecondNamed, NamedRegister
  <2>5. \A j \in 0 .. 7 : reg'[j] # reg[j] => j \in {AX, Op % 8}
    <3>1. reg' = WithWord(WithWord(reg, AX, reg[Op % 8]), Op % 8, reg[AX]) BY <1>8 DEF XchgAcc
    <3> QED BY <3>1, TypeFacts, TwoWordsChange
  <2> QED BY <2>1, <2>4, <2>5 DEF Named, Changes, StoresOnly, AX
<1>9. CASE Convert
  <2>1. data' = data /\ Op \in {\h98, \h99} BY <1>9 DEF Convert
  <2>2. \E v : \/ Op = \h98 /\ reg' = WithWord(reg, AX, v)
               \/ Op = \h99 /\ reg' = WithWord(reg, DX, v)
    BY <1>9, <2>1 DEF Convert
  <2>3. Changes(Implied)
    BY <2>2, TypeFacts, OneWordChanges, ImpliedRegisters DEF Changes
  <2> QED BY <2>1, <2>3, ImpliedNamed
<1>10. CASE Direction BY <1>10, LeavesAll DEF Direction
<1>11. CASE PushReg
  <2>1. Pushes /\ Pushing(reg[Op % 8]) BY <1>11 DEF PushReg, Pushes
  <2> QED BY <2>1, PushNamed
<1>12. CASE PushEA
  <2>1. Pushes /\ Pushing(ReadEA(W)) BY <1>12 DEF PushEA, Pushes
  <2> QED BY <2>1, PushNamed
<1>13. CASE PopReg
  <2>1. Op \in \h58 .. \h5f /\ data' = data /\ reg' = WithWord(Popped, Op % 8, StackTop)
    BY <1>13 DEF PopReg
  <2>2. Op \in \h40 .. \h5f /\ Op % 8 \in 0 .. 7 /\ Pops BY <1>1, <2>1 DEF Pops
  <2>3. Shown.ops = <<L!Register(1, Op % 8)>> BY <2>2, OneRegisterLines, LinedParts
  <2> QED BY <2>1, <2>2, <2>3, PopNamed
<1>14. CASE PopEA BY <1>14, PopEANamed
<1> QED BY <1>2, <1>3, <1>4, <1>5, <1>6, <1>7, <1>8, <1>9, <1>10, <1>11, <1>12, <1>13, <1>14
        DEF Transfer

LEMMA ControlNamed == ASSUME TypeOK, Control PROVE Named
<1>1. CASE JumpIf \/ JumpIfCXZero \/ Jump \/ JumpEA
  BY <1>1, LeavesAll DEF JumpIf, JumpIfCXZero, Jump, JumpEA
<1>2. CASE Loop
  <2>1. data' = data /\ reg' = WithWord(reg, CX, reg[CX] - 1) /\ CX \in Implied
    BY <1>2, ImpliedRegisters DEF Loop
  <2>2. Changes(Implied) BY <2>1, TypeFacts, OneWordChanges DEF Changes
  <2> QED BY <2>1, <2>2, ImpliedNamed
<1>3. CASE Call
  <2>1. Pushes /\ Pushing(ReturnTo(3)) BY <1>3 DEF Call, Pushes
  <2> QED BY <2>1, PushNamed
<1>4. CASE CallEA
  <2>1. Pushes /\ Pushing(ReturnTo(2 + DispLen)) BY <1>4 DEF CallEA, Pushes
  <2> QED BY <2>1, PushNamed
<1>5. CASE Ret
  <2>1. data' = data /\ SP \in Implied BY <1>5, ImpliedRegisters DEF Ret, Pops
  <2>2. \E v : reg' = WithWord(reg, SP, v) BY <1>5 DEF Ret
  <2>3. Changes(Implied) BY <2>1, <2>2, TypeFacts, OneWordChanges DEF Changes
  <2> QED BY <2>1, <2>3, ImpliedNamed
<1> QED BY <1>1, <1>2, <1>3, <1>4, <1>5 DEF Control

LEMMA StepNamed ==
  ASSUME TypeOK, Next, Executes, ~Unlisted, ~ExchangesBase
  PROVE  Named
<1>1. CASE Arithmetic BY <1>1, ArithmeticNamed
<1>2. CASE Transfer BY <1>2, TransferNamed
<1>3. CASE Control BY <1>3, ControlNamed
<1>4. CASE String
  <2>1. ~StringElement BY DEF StringElement, Executes, Ready
  <2> QED BY <1>4, <2>1, LeavesAll DEF String, Repeat, StringStart
<1>5. ~(SystemCall \/ ExecCall \/ LastCall)
  BY DEF Executes, SystemCall, ExecCall, LastCall, Interrupting
<1>6. ~Ending BY DEF Executes, Ready, Ending, Refuse, Overrun, Stopped
<1> QED BY <1>1, <1>2, <1>3, <1>4, <1>5, <1>6 DEF Next

\* Whatever the program, an instruction changes no register and no byte of data
\* memory but those its printed line names as the destination, or that the 8086
\* changes unnamed.
THEOREM ChangesListed == Spec => ListingNamesChanges
<1>1. Spec => []TypeOK BY TypeCorrect
<1>2. ASSUME TypeOK, [Next]_vars PROVE [Executes /\ ~Unlisted /\ ~ExchangesBase => Named]_vars
  BY <1>2, StepNamed
<1>3. [Executes /\ ~Unlisted /\ ~ExchangesBase => Named]_vars
      => [Executes /\ ~Unlisted /\ ~ExchangesBase =>
            /\ \A i \in 0 .. 7 :
                 reg'[i] # reg[i] => i \in Implied \cup UNION {RegistersOf(o) : o \in Changed}
            /\ \A a \in DOMAIN data' :
                 At(data', a) # At(data, a)
                   => a \in BelowSP \cup UNION {BytesIn(o) : o \in Changed}]_vars
  BY DEF Named, Changes, StoresOnly, MayChange, MayStore
<1> QED BY <1>1, <1>2, <1>3, PTL DEF Spec, ListingNamesChanges
=============================================================================
