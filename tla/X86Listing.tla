----------------------------- MODULE X86Listing -----------------------------
(***************************************************************************)
(* One line of a listing: how class X86Disassm cuts an instruction out of  *)
(* the code, and which operands class X86Dump prints for it.  This is a    *)
(* decoder of its own, written apart from that of X86Runtime.              *)
(*                                                                         *)
(* An instruction is given by its bytes: b[0] is the opcode, and b has the *)
(* seven bytes that follow it as well.                                     *)
(***************************************************************************)
EXTENDS X86Words

Bytes == [0 .. 7 -> Byte]

WordBit(b) == b[0] % 2
ToRegister(b) == (b[0] \div 2) % 2 = 1

\* setParameter: the ModR/M byte.
Mode(b) == b[1] \div 64
Ext(b) == (b[1] \div 8) % 8
Rm(b) == b[1] % 8
DirectAddress(b) == Mode(b) = 0 /\ Rm(b) = 6

\* Mutant of DispSize: the word after a direct address is not looked for.
DispSizeByMode(b) == CASE Mode(b) = 1 -> 1 [] Mode(b) = 2 -> 2 [] OTHER -> 0

\* resolveDisp: the bytes of the displacement and its value, an int16.
DispSize(b) ==
  CASE DirectAddress(b) \/ Mode(b) = 2 -> 2
    [] Mode(b) = 1 -> 1
    [] OTHER -> 0
DispValue(b) ==
  CASE DispSize(b) = 2 -> Signed(Pair(b[2], b[3]), 65536)
    [] DispSize(b) = 1 -> Signed(b[2], 256)
    [] OTHER -> 0

\* The opcode, the ModR/M byte and the displacement.
HeadSize(b) == 2 + DispSize(b)

\* setData and setDataSW: the immediate at byte k.
DataAt(b, k, w) == IF w = 1 THEN Pair(b[k], b[k + 1]) ELSE b[k]
DataSW(b, k) == IF b[0] = \h83 THEN SignExtend(b[k]) ELSE DataAt(b, k, WordBit(b))
-----------------------------------------------------------------------------
\* What X86Dump can print as an operand.  A memory operand has the number of its
\* base as rm and the displacement printed after it; 8 stands for no base.
Operand(kind, w, n, disp) == [kind |-> kind, w |-> w, n |-> n, disp |-> disp]
Register(w, n) == Operand("register", w, n, 0)
Segment(n) == Operand("segment", 1, n % 4, 0)
Number(v) == Operand("number", 1, v % 65536, 0)
Port(v) == Operand("port", 0, v, 0)
Memory(w, n, disp) == Operand("memory", w, n, disp)
Accumulator(w) == Register(w, 0)

\* Mutant of EA: a register is looked up in the list of words.
EAOfWords(b, w) ==
  IF Mode(b) = 3 THEN Register(1, Rm(b))
  ELSE Memory(w, IF DirectAddress(b) THEN 8 ELSE Rm(b), DispValue(b))

\* writeEA
EA(b, w) ==
  IF Mode(b) = 3 THEN Register(w, Rm(b))
  ELSE Memory(w, IF DirectAddress(b) THEN 8 ELSE Rm(b), DispValue(b))

\* Mutant of EitherWay: the d bit the other way round.
EitherWaySwapped(b) ==
  LET ea == EA(b, WordBit(b))
      r == Register(WordBit(b), Ext(b))
  IN  IF ToRegister(b) THEN <<ea, r>> ELSE <<r, ea>>

\* add_adc_sub_sbb_cmp1, and_or_xor1, dump_mov1: the d bit says which comes first.
EitherWay(b) ==
  LET ea == EA(b, WordBit(b))
      r == Register(WordBit(b), Ext(b))
  IN  IF ToRegister(b) THEN <<r, ea>> ELSE <<ea, r>>

\* dump_test1, dump_xchg1
EAWithRegister(b) == <<EA(b, WordBit(b)), Register(WordBit(b), Ext(b))>>

\* add_adc_sub_sbb_cmp2, and_or_xor2, dump_mov2, dump_test2
EAWithData(b, v) == <<EA(b, WordBit(b)), Number(v)>>

\* add_adc_sub_sbb_cmp3, and_or_xor3, dump_test3
AccumulatorWithData(b) == <<Accumulator(WordBit(b)), Number(DataAt(b, 1, WordBit(b)))>>

\* dump_mov3
RegisterWithData(b) ==
  LET w == (b[0] \div 8) % 2 IN <<Register(w, b[0] % 8), Number(DataAt(b, 1, w))>>

\* dump_mov4, dump_mov5
AccumulatorWithMemory(b) ==
  LET cell == Memory(WordBit(b), 8, Signed(Pair(b[1], b[2]), 65536))
  IN  IF ToRegister(b) THEN <<cell, Accumulator(WordBit(b))>>
      ELSE <<Accumulator(WordBit(b)), cell>>

\* inc_dec1, push_pop1, div_idiv_mul_imul, dump_neg, dump_not, dump_jmp3, dump_call2
OneEA(b, w) == <<EA(b, w)>>

\* shl_shr_sar_rcl_rcr_rol_ror
ShiftOperands(b) ==
  <<EA(b, WordBit(b)), IF ToRegister(b) THEN Register(0, 1) ELSE Number(1)>>
-----------------------------------------------------------------------------
\* A pass of disassm(): what it takes the bytes for, how many it fetches, and the
\* operands of the line it prints.  An instruction whose ext has no case is taken
\* off the code and gets no line.
Shape(kind, size, ops) == [kind |-> kind, size |-> size, ops |-> ops]
Shown(size, ops) == Shape("shown", size, ops)
Undefined == Shape("undefined", 1, <<>>)
If(known, shape) == IF known THEN shape ELSE Shape("silent", shape.size, <<>>)

PrefixOpcodes == {\h26, \h2e, \h36, \hf2, \hf3}

\* 00 .. 3d
Arithmetic(b) ==
  CASE b[0] % 8 <= 3 -> Shown(HeadSize(b), EitherWay(b))
    [] b[0] % 8 \in {4, 5} /\ b[0] # \h35 ->
         Shown(2 + WordBit(b), AccumulatorWithData(b))
    [] b[0] \in {\h06, \h07, \h0e, \h16, \h17, \h1e, \h1f} ->
         Shown(1, <<Segment(b[0] \div 8)>>)
    [] OTHER -> Undefined

\* 40 .. 5f
OneRegister(b) == Shown(1, <<Register(1, b[0] % 8)>>)

\* 70 .. 7f, e0, e2, e3, eb: a is the address of the opcode.
ShortJump(b, a) == Shown(2, <<Number(a + 2 + SignExtend(b[1]))>>)
NearJump(b, a) == Shown(3, <<Number(a + 3 + Pair(b[1], b[2]))>>)

\* 80 .. 83
ImmediateGroup(b) ==
  LET wide == IF b[0] = \h81 THEN 1 ELSE 0
      known == IF b[0] = \h81 THEN {0, 1, 3, 4, 5, 7} ELSE {0, 2, 3, 4, 5, 7}
  IN  If(Ext(b) \in known,
         Shown(HeadSize(b) + 1 + wide, EAWithData(b, DataSW(b, HeadSize(b)))))

\* 84 .. 8f: a segment register's number is cut to two bits.
MoveGroup(b) ==
  CASE b[0] \in \h84 .. \h87 -> Shown(HeadSize(b), EAWithRegister(b))
    [] b[0] \in \h88 .. \h8b -> Shown(HeadSize(b), EitherWay(b))
    [] b[0] = \h8c -> Shown(HeadSize(b), <<EA(b, 1), Segment(Ext(b))>>)
    [] b[0] = \h8d -> Shown(HeadSize(b), <<Register(1, Ext(b)), EA(b, 1)>>)
    [] b[0] = \h8e -> Shown(HeadSize(b), <<Segment(Ext(b)), EA(b, 1)>>)
    [] OTHER -> If(Ext(b) = 0, Shown(HeadSize(b), OneEA(b, 1)))

\* 90 .. af
Accumulators(b) ==
  CASE b[0] \in \h90 .. \h97 -> Shown(1, <<Register(1, b[0] % 8), Accumulator(1)>>)
    [] b[0] \in \ha0 .. \ha3 -> Shown(3, AccumulatorWithMemory(b))
    [] b[0] \in {\ha8, \ha9} -> Shown(2 + WordBit(b), AccumulatorWithData(b))
    [] b[0] \in {\h98, \h99, \h9c, \h9d} \cup \ha4 .. \ha7 \cup \haa .. \haf -> Shown(1, <<>>)
    [] OTHER -> Undefined

\* b0 .. cf
Immediates(b) ==
  CASE b[0] \in \hb0 .. \hbf -> Shown(2 + ((b[0] \div 8) % 2), RegisterWithData(b))
    [] b[0] = \hc2 -> Shown(3, <<Number(Pair(b[1], b[2]))>>)
    [] b[0] = \hc5 -> Shown(HeadSize(b), <<Register(1, Ext(b)), EA(b, 1)>>)
    [] b[0] \in {\hc6, \hc7} ->
         Shown(HeadSize(b) + 1 + WordBit(b), EAWithData(b, DataAt(b, HeadSize(b), WordBit(b))))
    [] b[0] = \hcd -> Shown(2, <<Number(b[1])>>)
    [] b[0] \in {\hc3, \hcb, \hcc, \hcf} -> Shown(1, <<>>)
    [] OTHER -> Undefined

\* d0 .. ef
ShiftsAndPorts(b, a) ==
  CASE b[0] \in \hd0 .. \hd3 -> If(Ext(b) # 6, Shown(HeadSize(b), ShiftOperands(b)))
    [] b[0] \in {\he0, \he2, \he3, \heb} -> ShortJump(b, a)
    [] b[0] \in {\he4, \he5} -> Shown(2, <<Accumulator(WordBit(b)), Port(b[1])>>)
    [] b[0] \in {\he6, \he7} -> Shown(2, <<Port(b[1]), Accumulator(WordBit(b))>>)
    [] b[0] \in {\he8, \he9} -> NearJump(b, a)
    [] b[0] = \hea -> Shown(5, <<Number(Pair(b[3], b[4])), Number(Pair(b[1], b[2]))>>)
    [] b[0] \in {\hec, \hed} -> Shown(1, <<Accumulator(WordBit(b)), Register(1, 2)>>)
    [] b[0] \in {\hee, \hef} -> Shown(1, <<Register(1, 2), Accumulator(WordBit(b))>>)
    [] OTHER -> Undefined

\* f4 .. ff: call, jmp and push print words whatever the w bit says.
UnaryGroup(b) ==
  CASE b[0] \in {\hf6, \hf7} /\ Ext(b) = 0 ->
         Shown(HeadSize(b) + 1 + WordBit(b), EAWithData(b, DataAt(b, HeadSize(b), WordBit(b))))
    [] b[0] \in {\hf6, \hf7} /\ Ext(b) # 0 -> If(Ext(b) # 1, Shown(HeadSize(b), OneEA(b, WordBit(b))))
    [] b[0] \in {\hfe, \hff} ->
         If(Ext(b) \in {0, 1, 2, 4, 6},
            Shown(HeadSize(b), OneEA(b, IF Ext(b) < 2 THEN WordBit(b) ELSE 1)))
    [] b[0] \in {\hf4} \cup \hfa .. \hfd -> Shown(1, <<>>)
    [] OTHER -> Undefined

\* The switch of disassm().
Decoded(b, a) ==
  CASE b[0] \in PrefixOpcodes -> Shape("prefix", 1, <<>>)
    [] b[0] <= \h3f /\ b[0] \notin PrefixOpcodes -> Arithmetic(b)
    [] b[0] \in \h40 .. \h5f -> OneRegister(b)
    [] b[0] \in {\h70} \cup \h72 .. \h78 \cup \h7c .. \h7f -> ShortJump(b, a)
    [] b[0] \in \h80 .. \h83 -> ImmediateGroup(b)
    [] b[0] \in \h84 .. \h8f -> MoveGroup(b)
    [] b[0] \in \h90 .. \haf -> Accumulators(b)
    [] b[0] \in \hb0 .. \hcf -> Immediates(b)
    [] b[0] \in \hd0 .. \hef -> ShiftsAndPorts(b, a)
    [] b[0] >= \hf4 -> UnaryGroup(b)
    [] OTHER -> Undefined
-----------------------------------------------------------------------------
\* Mutant of V6Words: the length that write is given is not looked for.
V6WordsShort(systype) == IF systype \in {0, 4} THEN 1 ELSE 0

\* dumpSysCall: how many words of arguments a system call of Unix V6 has in the code.
V6Words(systype) == CASE systype = 0 -> 1 [] systype = 4 -> 2 [] OTHER -> 0
V6Known == {0, 1, 4}
=============================================================================
