----------------------------- MODULE X86Disassm -----------------------------
(***************************************************************************)
(* The disassembler: class X86Disassm going once over the text segment,    *)
(* and V6Dump, which it calls for the arguments that follow a system call  *)
(* of Unix V6.  A step is one pass of the loop of disassm(); reading the   *)
(* symbol table, which comes first, takes a step for each entry.           *)
(*                                                                         *)
(* What is written is kept in the order in which it is written.  Lines of  *)
(* instructions go to cerr, labels and system calls to cout, so only the   *)
(* order within each of the two is what a reader of the listing sees.      *)
(***************************************************************************)
EXTENDS X86Listing, SequencesExt

CONSTANTS
  Binaries,  \* what disassm() is given: [text, symbols, symsize]
  Heaps      \* what the seven bytes of the heap after buf may hold

NoName == -1

ASSUME BinariesAssumption ==
  \A f \in Binaries :
    /\ f.text \in Seq(Byte) /\ Len(f.text) <= 65535
    /\ f.symbols \in Seq(Word \cup {NoName})
    /\ f.symsize \in Word /\ 12 * Len(f.symbols) <= f.symsize
ASSUME HeapsAssumption == \A h \in Heaps : h \in [1 .. 7 -> Byte]

VARIABLES
  binary,       \* the file being listed
  heap,         \* what lies after its text
  i,            \* setSymbol's loop counter
  symbolTable,  \* the addresses that have a name
  p,            \* how far fetch() has come
  option,       \* opcode.option: a prefix that waits for its instruction
  lines,        \* everything written
  missed,       \* history: addresses of bytes taken and given no line
  over          \* disassm() has returned

vars == <<binary, heap, i, symbolTable, p, option, lines, missed, over>>

Text == binary.text
Size == Len(Text)

\* addr, a uint16, counts the fetches as p does.
Addr == p % 65536

\* The model notes in `at' where the byte of the prefix lies.
NoOption == [active |-> FALSE, bytes |-> <<>>, adstr |-> 0, at |-> 0]

\* The byte fetched at address a, in buf or past it.
ByteAt(a) == IF a < Size THEN Text[a + 1] ELSE heap[a - Size + 1]
Taken(a, n) == [k \in 1 .. n |-> ByteAt(a + k - 1)]

\* The bytes from p on; a pass looks at no more of them than it fetches.
Ahead == [k \in 0 .. 7 |-> IF p + k < Size + 7 THEN ByteAt(p + k) ELSE 0]
Current == Decoded(Ahead, Addr)
-----------------------------------------------------------------------------
Init ==
  /\ binary \in Binaries /\ heap \in Heaps
  /\ i = 0 /\ symbolTable = {}
  /\ p = 0 /\ option = NoOption
  /\ lines = <<>> /\ missed = {} /\ over = FALSE

\* The address of the entry at byte i, when it has a name.
NamedAt ==
  IF i % 12 = 0 /\ i \div 12 < Len(binary.symbols) THEN binary.symbols[i \div 12 + 1]
  ELSE NoName

\* Mutant of ReadSymbol: an entry without a name is not stepped over.
ReadSymbolStuck ==
  /\ i < binary.symsize
  /\ symbolTable' = symbolTable \cup ({NamedAt} \ {NoName})
  /\ i' = IF NamedAt = NoName THEN i ELSE (i + 12) % 65536
  /\ UNCHANGED <<binary, heap, p, option, lines, missed, over>>

\* Mutant of ReadSymbol: an entry without a name gets one.
ReadSymbolUnnamed ==
  /\ i < binary.symsize
  /\ symbolTable' = symbolTable \cup {NamedAt}
  /\ i' = (i + 12) % 65536
  /\ UNCHANGED <<binary, heap, p, option, lines, missed, over>>

\* i is a uint16 and wraps before it reaches a size above 65532.
ReadSymbol ==
  /\ i < binary.symsize
  /\ symbolTable' = symbolTable \cup ({NamedAt} \ {NoName})
  /\ i' = (i + 12) % 65536
  /\ UNCHANGED <<binary, heap, p, option, lines, missed, over>>
-----------------------------------------------------------------------------
Sweeping == i >= binary.symsize /\ ~over
Pass == Sweeping /\ p < Size

Line(to, at, bytes) == [to |-> to, at |-> at, bytes |-> bytes]

\* Mutant of Label: the label of an address goes where its line begins.
LabelAtLine ==
  IF (IF option.active THEN option.adstr ELSE Addr) \in symbolTable
  THEN <<Line("cout", Addr, <<>>)>> ELSE <<>>

\* writeSymbol
Label == IF Addr \in symbolTable THEN <<Line("cout", Addr, <<>>)>> ELSE <<>>

\* Mutant of Adstr: a prefix is forgotten.
AdstrOfOpcode == Addr

\* addrToString: a line begins where its prefix does.
Adstr == IF option.active THEN option.adstr ELSE Addr

\* Mutant of Serialized: the prefix takes the place of the opcode.
SerializedOver(n) == IF option.active THEN option.bytes \o Taken(p + 1, n - 1) ELSE Taken(p, n)

\* serialize(): the prefix is put before the bytes of the instruction.
Serialized(n) == option.bytes \o Taken(p, n)

Write(some) == lines' = lines \o Label \o some
Missing(addresses) == missed' = missed \cup addresses

\* The byte of the prefix that waits, if one does.
Waiting == IF option.active THEN {option.at} ELSE {}

\* 26, 2e, 36, f2, f3: a second prefix takes the place of the first.
Prefix ==
  /\ Pass /\ Current.kind = "prefix"
  /\ option' = [active |-> TRUE, bytes |-> Taken(p, 1), adstr |-> Adstr, at |-> p]
  /\ Write(<<>>)
  /\ Missing(Waiting)
  /\ p' = p + 1
  /\ UNCHANGED <<binary, heap, i, symbolTable, over>>

\* An add whose ModR/M byte is missing, the only instruction that looks for the end.
CutShort == Ahead[0] \in 0 .. 3 /\ p + 1 = Size

\* The line is not serialized, so a prefix stays out of it.
LastByte ==
  /\ Pass /\ CutShort
  /\ Write(<<Line("cerr", Adstr, Taken(p, 1))>>)
  /\ Missing(Waiting)
  /\ p' = p + 1
  /\ UNCHANGED <<binary, heap, i, symbolTable, option, over>>

\* int 7; under a prefix raws[1] has moved and is not 7.
CallsV6 == Ahead[0] = \hcd /\ Ahead[1] = 7 /\ ~option.active

List ==
  /\ Pass /\ Current.kind \in {"shown", "undefined"} /\ ~CutShort /\ ~CallsV6
  /\ Write(<<Line("cerr", Adstr, Serialized(Current.size))>>)
  /\ option' = NoOption
  /\ p' = p + Current.size
  /\ UNCHANGED <<binary, heap, i, symbolTable, missed, over>>

\* An instruction without a line leaves the prefix to the next one.
PassOver ==
  /\ Pass /\ Current.kind = "silent"
  /\ Write(<<>>)
  /\ Missing(p .. p + Current.size - 1)
  /\ p' = p + Current.size
  /\ UNCHANGED <<binary, heap, i, symbolTable, option, over>>

ListV6 ==
  /\ Pass /\ CallsV6
  /\ LET at == p + 2
         systype == ByteAt(at)
         words == V6Words(systype)
         call == Line("cout", at % 65536, <<systype>>)
         args == [k \in 1 .. words |->
                    Line("cout", (at + 2 * k - 1) % 65536, Taken(at + 2 * k - 1, 2))]
     IN  /\ Write(<<Line("cerr", Addr, Serialized(2))>>
                  \o (IF systype \in V6Known THEN <<call>> \o args ELSE <<>>))
         /\ Missing(IF systype \in V6Known THEN {} ELSE {at})
         /\ p' = at + 1 + 2 * words
  /\ UNCHANGED <<binary, heap, i, symbolTable, option, over>>

\* p >= end; a last instruction may have been read past it.
Finish ==
  /\ Sweeping /\ p >= Size
  /\ over' = TRUE
  /\ UNCHANGED <<binary, heap, i, symbolTable, p, option, lines, missed>>

Returned == over /\ UNCHANGED vars

Next ==
  \/ ReadSymbol
  \/ Prefix \/ LastByte \/ List \/ PassOver \/ ListV6
  \/ Finish \/ Returned

\* The loop runs on by itself: one process, no input to wait for.
Spec == Init /\ [][Next]_vars /\ WF_vars(Next)
-----------------------------------------------------------------------------
\* Every variable has its type, and however the code ends no pass reads more than
\* six bytes past it.
TypeOK ==
  /\ i \in Word /\ symbolTable \subseteq Word
  /\ p \in 0 .. Size + 6
  /\ option.active \in BOOLEAN /\ option.adstr \in Word
  /\ \A k \in DOMAIN lines : lines[k].at \in Word /\ lines[k].bytes \in Seq(Byte)
  /\ missed \subseteq 0 .. p - 1 /\ option.at \in 0 .. p
  /\ over \in BOOLEAN

\* The bytes passed that should have been written by now, in order.
Due ==
  FlattenSeq([k \in 1 .. p |-> IF k - 1 \in missed \cup Waiting THEN <<>> ELSE <<ByteAt(k - 1)>>])
Written == FlattenSeq([k \in DOMAIN lines |-> lines[k].bytes])

\* Whatever the order of prefixes, instructions with and without a line, system
\* calls and cut-off code, the lines show each byte of the text once and in order,
\* but for those of prefixes replaced, dropped or still waiting, and of
\* instructions the disassembler says it does not implement.
BytesShownOnce == Written = Due

\* As long as no byte was left out, a line bears the address of its first byte:
\* those of a prefix's line, of what follows it and of a system call's arguments
\* are all counted alike.
AddressesTrue ==
  missed = {} =>
    \A k \in DOMAIN lines :
      lines[k].bytes # <<>> =>
        lines[k].at = Len(FlattenSeq([j \in 1 .. k - 1 |-> lines[j].bytes])) % 65536

\* The only labels are those of the symbol table, each is written once, and before
\* the line that begins at its address: a prefix has its label before it, and what
\* follows a prefix has none of the prefix's.
LabelsInPlace ==
  \A k \in DOMAIN lines :
    /\ lines[k].to = "cerr" /\ lines[k].at \in symbolTable =>
         \E j \in 1 .. k - 1 : lines[j].bytes = <<>> /\ lines[j].at = lines[k].at
    /\ lines[k].bytes = <<>> =>
         /\ lines[k].at \in symbolTable
         /\ \A j \in DOMAIN lines \ {k} : lines[j].bytes = <<>> => lines[j].at # lines[k].at

\* The listing comes to its end, if the symbol table is not so large that a uint16
\* multiple of 12 cannot pass its size.
SweepEnds == binary.symsize <= 65532 ~> over
=============================================================================
