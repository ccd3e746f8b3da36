------------------------------ MODULE X86Watch ------------------------------
(***************************************************************************)
(* X86Runtime observed by three history variables, and what the 8086       *)
(* manuals promise about a program's own notions: the comparison it last   *)
(* made, the words it has pushed, the string instruction it has begun.     *)
(* The history is written from the instruction set, not from the code: it  *)
(* never looks at Z, S, O or C, nor at what a step stores but to see that  *)
(* a word was overwritten.                                                 *)
(***************************************************************************)
EXTENDS X86Runtime, X86AluRules

VARIABLES
  compared,   \* operands and width of the last comparison, while flags tell of it
  held,       \* address -> word pushed there and neither popped nor overwritten
  begun       \* the state in which the running string instruction started

watched == <<compared, held, begun>>
allvars == <<vars, watched>>

Nothing == [m |-> 0]
-----------------------------------------------------------------------------
\* Instructions after which the flags tell of a difference l - r.
AluComparison == Ready /\ Op < 64 /\ Op % 8 <= 5 /\ Kind \in {5, 7}
ImmComparison == Ready /\ Op \in {\h80, \h81, \h83} /\ Reg \in {5, 7}
StringComparison == Running /\ stringop \in {\ha6, \hae}

Operands ==
  CASE AluComparison /\ Op % 8 <= 3 ->
         IF D = 1 THEN <<ReadRegister(W, Reg), ReadEA(W)>> ELSE <<ReadEA(W), ReadRegister(W, Reg)>>
    [] AluComparison /\ Op % 8 > 3 -> <<ReadRegister(W, AX), Immediate(W, 1)>>
    [] ImmComparison -> <<ReadEA(W), ImmediateSW>>
    [] OTHER -> <<IF stringop = \ha6 THEN At(data, reg[SI]) ELSE LowByte(reg[AX]),
                  At(data, reg[DI])>>

\* The instructions that may change Z, S, O or C by the manual.
SetsFlags ==
  \/ Ready /\ Op < 64
  \/ Ready /\ Op \in \h40 .. \h4f
  \/ Ready /\ Op \in {\h80, \h81, \h83, \h84, \h85, \ha8, \ha9, \hd0, \hd1, \hd2, \hd3}
  \/ Ready /\ Op \in {\hf6, \hf7} /\ Reg # 2
  \/ Ready /\ Op \in {\hfe, \hff} /\ Reg \in {0, 1}
  \/ StringComparison

Observing ==
  compared' = IF AluComparison \/ ImmComparison \/ StringComparison
              THEN [m |-> IF StringComparison THEN 256 ELSE Width(W),
                    l |-> Operands[1], r |-> Operands[2]]
              ELSE IF SetsFlags THEN Nothing ELSE compared
-----------------------------------------------------------------------------
\* The words that push and call put on the stack.
PushesWord ==
  \/ Ready /\ Op \in \h50 .. \h57
  \/ Ready /\ Op = \he8
  \/ Ready /\ Op = \hff /\ Reg \in {2, 6}
WordPushed ==
  CASE Op \in \h50 .. \h57 -> reg[Op % 8]
    [] Op = \he8 -> addr + 3
    [] Op = \hff /\ Reg = 2 -> addr + 2 + DispLen
    [] OTHER -> ReadEA(1)

Below(a) == (a - 2) % 65536
Touches(a, b) == b \in {a, (a + 1) % 65536}

Overwritten(a) ==
  \/ \E b \in {a, (a + 1) % 65536} : At(data', b) # At(data, b)
  \/ PushesWord /\ \E b \in {Below(reg[SP]), (reg[SP] - 1) % 65536} : Touches(a, b)

\* A word counts as popped once SP has moved above it.
Holding ==
  LET kept == {a \in DOMAIN held : ~Overwritten(a) /\ (reg'[SP] # reg[SP] => a # reg[SP])}
      top == Below(reg[SP])
  IN  held' = IF PushesWord
              THEN [a \in {b \in DOMAIN held : ~Overwritten(b)} \cup {top} |->
                      IF a = top THEN WordPushed % 65536 ELSE held[a]]
              ELSE [a \in kept |-> held[a]]

Beginning ==
  begun' = IF Ready /\ Op \in StringOps
           THEN [op |-> Op, reg |-> reg, data |-> data, d |-> flags.d,
                 rep |-> option.active, z |-> option.z]
           ELSE begun

WatchedInit ==
  /\ Init
  /\ compared = Nothing
  /\ held = [a \in {} |-> 0]
  /\ begun = Nothing

WatchedNext == Next /\ Observing /\ Holding /\ Beginning
WatchedSpec == WatchedInit /\ [][WatchedNext]_allvars /\ WF_allvars(WatchedNext)
-----------------------------------------------------------------------------
\* A conditional jump decides the relation of the operands last compared, however
\* many instructions that leave the flags alone ran in between: the pairing of
\* every cmp, sub, cmpsb and scasb case of run() with its cases 72 .. 7f.
JumpsDecideComparison ==
  [][JumpIf /\ compared # Nothing =>
       pc' = IF Relation(Op % 16, compared.l, compared.r, compared.m)
             THEN Short(2) % 65536 ELSE pc + 2]_allvars

\* pop and ret find the word that push or call left at SP unless something stored
\* over it, wherever SP is: push(), pop(), nextPC() and the uint16 SP agree.
PopsFindPushed ==
  [][reg[SP] \in DOMAIN held =>
       /\ PopReg => reg'[Op % 8] = held[reg[SP]]
       /\ Ret => pc' = held[reg[SP]]]_allvars
-----------------------------------------------------------------------------
\* The string instruction that is ending with this step, and how it went.
Ends == stringop # 0 /\ stringop' = 0
Limit == IF begun.rep THEN begun.reg[CX] ELSE 1
Stride == (IF begun.op = \ha5 THEN 2 ELSE 1) * (IF begun.d THEN -1 ELSE 1)
SourceAt(i) == (begun.reg[SI] + i * Stride) % 65536
TargetAt(i) == (begun.reg[DI] + i * Stride) % 65536

\* The bytes an element occupies, and those all k elements occupy.
BytesOf(a) == IF begun.op = \ha5 THEN {a, a + 1} ELSE {a}
Targets(k) == UNION {BytesOf(TargetAt(i)) : i \in 0 .. k - 1}
Sources(k) == UNION {BytesOf(SourceAt(i)) : i \in 0 .. k - 1}

\* cmpsb and scasb: the operands of element i, and how many elements are looked at.
Left(i) == IF begun.op = \ha6 THEN At(begun.data, SourceAt(i)) ELSE LowByte(begun.reg[AX])
Right(i) == At(begun.data, TargetAt(i))
Stops(i) == IF begun.z = 1 THEN Left(i) # Right(i) ELSE Left(i) = Right(i)
Looked ==
  LET stopping == {i \in 0 .. Limit - 1 : begun.rep /\ Stops(i)}
  IN  IF stopping = {} THEN Limit
      ELSE 1 + CHOOSE i \in stopping : \A j \in stopping : i <= j

Done == IF begun.op \in {\ha6, \hae} THEN Looked ELSE Limit

\* A string instruction, repeated or not, ends having handled exactly the elements
\* the manual says: registers moved by their number, CX what is left, a copy equal
\* to its source when the two do not overlap, nothing else in memory changed, and
\* the flags those of the last pair compared.
StringRight ==
  [][Ends =>
       /\ reg'[DI] = TargetAt(Done)
       /\ begun.op \in {\ha4, \ha5, \ha6} => reg'[SI] = SourceAt(Done)
       /\ begun.rep => reg'[CX] = begun.reg[CX] - Done
       /\ \A a \in DOMAIN data' :
            (begun.op \in {\ha6, \hae} \/ a \notin Targets(Done)) => data'[a] = At(begun.data, a)
       /\ begun.op \in {\ha4, \ha5} /\ Targets(Done) \cap Sources(Done) = {} =>
            \A i \in 0 .. Done - 1 : \A k \in 0 .. 1 :
              (k = 1 => begun.op = \ha5)
              => At(data', TargetAt(i) + k) = At(begun.data, SourceAt(i) + k)
       /\ begun.op = \haa => \A a \in Targets(Done) : At(data', a) = LowByte(begun.reg[AX])
       /\ begun.op \in {\ha6, \hae} =>
            /\ flags'.z = (Left(Done - 1) = Right(Done - 1))
            /\ flags'.c = (Left(Done - 1) < Right(Done - 1))]_allvars

\* A repeated string instruction comes to its end: CX runs out or a test stops it.
StringsEnd == stringop # 0 ~> (stringop = 0 \/ ~Running)
=============================================================================
