# A TLA+ verification of mmvm, the 8086 interpreter

The repository holds `mmvm` (`setuptools/mmvm`): a program that loads a 16-bit
Minix 2 (or Unix V6) executable for the 8086, interprets its instructions and
answers its system calls through the host; it can also list the program, and trace
what it executes. This directory models the processor and its arithmetic, the
disassembler, the way a program is loaded and given its arguments, and the system
calls with the processes they make. TLC checks them, and TLAPS proves, for every
program, that the processor keeps its types, that its two program counters agree and
that a conditional jump decides the comparison the program made, and for any number
of processes that their runs nest, that pids are fresh and that `wait` answers `fork`.

## The system

| Part | State | Operations | Hard because |
|---|---|---|---|
| `X86Runtime::run` (`x86runtime.cpp`, `runtime.h`, `opcode.h`) | registers, `sreg`, `memory` (text), `d_memory` (data), `pc` and `addr`, `opcode.option`, locals that live on (`val16`, `trace_f`) | one pass per instruction: fetch, decode, execute; the loops of repeated string instructions; every exit | state kept from one instruction to the next (flags, prefix, stale `val16`), two program counters, 16-bit wrap, C's integer conversions |
| Minix calls (`minix.cpp`, `x86minix.cpp`, `os.h`, `os.cpp`) | `pid`, static `pid_max`, `childRuntime`, `sigary`, sizes, `m_type`; `errno` and descriptors of the host | `execSysCall` reads the message at BX and calls `minixfork`, `minixwait`, ... | a child runs inside its parent's `wait`; members overwritten meanwhile; host state shared |
| Unix V6 calls (`unixv6.cpp`, `x86unixv6.cpp`) | memory, AX, carry, `pc` | `execSysCall` for V6 numbers: write, exit, indirect | arguments in the code after the interrupt, or at an address in it |
| `processArgs` (`minix.cpp:31`, `unixv6.cpp:27`) | stack of the new program, SP | lays out argc, argv, envp | addresses noted while strings are pushed, padding by their lengths; on `exec` everything is read from the memory that is then cleared |
| Loader (`binary.cpp`, `X86Runtime::setBinary`) | file buffer, header fields, segments | `init`, `setType`, `run`, `setBinary` | fields left uninitialised, unchecked sizes |
| Disassembler (`x86disassm.cpp`, `disassm.h`) | `p`, `addr`, symbol table, a waiting prefix | `setSymbol`, `disassm` | a second decoder that must agree with `run`; state from line to line; ends of code |
| Trace (`x86dump.cpp`, `dump.cpp`, `v6dump.cpp`) | none | prints; `serialize` flushes the options | the flush is an effect of a print; the operands must be those executed |
| `convertPath` (`os.cpp`) | `rootPath` | `/usr/tmp` and `/tmp` to `/tmp`, the rest below the root | order of the two searches |
| `main.cpp`, `disptest.cpp` | none | options | |
| `tests/asem`, `tests/interpreter.c` | | an earlier interpreter in C | shares no code with mmvm |
| `minix2/` | | the Minix 2.0.4 distribution with its manual pages | third party |

How they interact: `main` makes a `Binary`, which creates an `X86Runtime` and copies
the segments into it; `run` executes until the program exits; `int` calls
`execSysCall` with pointers to the runtime's own registers and memory, so a system
call changes them in place; `fork` creates a second `X86Runtime` with an `X86Minix`
of its own, and `wait` calls its `run` recursively. There are no threads: the
nested calls of `run` are the only concurrency, and the host process (descriptors,
working directory) is shared by all of them.

What makes the parts correct:

* processor: a conditional jump takes the relation of the last comparison; numbers
  longer than a register come out right; pop finds what push left; a string
  instruction handles exactly its elements and ends; a prefix acts on its own
  instruction only; stores stay inside the operand; nothing leaves its C++ type.
* processes: a child is a copy, is waited for once, by its own parent, which gets
  its pid and status; pids are unique; the break stays above the data; a call that
  replies an error has changed nothing.
* start of a program: it is the one named, it finds its arguments, on a stack of
  words, and nothing of the program it replaces.
* listing: every byte of the code once, in order and at its address, labels in their
  places, to the end; and instruction by instruction what the processor does.

## Modules

| Module | What it is | Code |
|---|---|---|
| `X86Words` | bytes and words as numbers below 256 and 65536: halves, signs, and/or/xor, shifts | the C conversions in `x86runtime.cpp` |
| `X86Alu` | for each arithmetic case, the result with the flags it gives `setZSOC`, as a record `[val, z, s, o, c]` | cases of `run()` |
| `X86AluRules` | what these operators promise each other | properties |
| `X86AluSweep` | those promises as invariants of a sweep over `Operands` | properties |
| `X86Memory` | a segment of 64 KB as a function on the addresses written | `readMemory`, `writeMemory` |
| `X86Runtime` | the machine: variables, one action per group of cases | `run()` and its helpers |
| `X86Watch` | `X86Runtime` with three history variables and the promises about a program's comparisons, pushes and string instructions | properties |
| `X86Manual` | a statement of `as(9)` that the code does not keep | violation run |
| `X86Listing` | one line of a listing: how long an instruction is and which operands are printed | `x86disassm.cpp`, `x86dump.cpp`, `v6dump.cpp` |
| `X86Disassm` | the sweep over the code: symbols, labels, prefixes, V6 calls, ends | `x86disassm.cpp`, `opcode.h`, `v6dump.cpp` |
| `X86Listed` | `X86Runtime` beside `X86Listing`: the two decoders on the same bytes | properties |
| `Launch` | loading, arguments, `exec`, path conversion, V6 calls | `binary.cpp`, `minix.cpp`, `x86minix.cpp`, `unixv6.cpp`, `x86unixv6.cpp`, `os.cpp` |
| `MinixProc` | processes and all Minix calls: `execSysCall`, `X86Minix` | `minix.cpp`, `x86minix.cpp` |
| `UnixProc` | what fork(2), wait(2), _exit(2) promise, processes running at the same time | abstract specification |
| `MinixUnix` | the mapping under which `MinixProc` implements `UnixProc` for programs that deal with one child at a time | refinement |
| `MinixManual` | statements of the Minix manual pages that the code does not keep | violation runs |
| `X86AluProofs`, `X86AluSweepProofs`, `X86RuntimeProofs`, `X86WatchProofs`, `X86DisassmProofs`, `LaunchProofs`, `MinixProcProofs` | lemmas and theorems about the modules they extend | |
| `FlatSequences` | lemmas about sequences put together with `FlattenSeq`, and induction | |
| `MC*` | bounded programs and constants for TLC; `MCPrograms` has their building blocks | |

### X86Runtime

A step is one pass of the loop of `run()`: all bytes of an instruction are fetched,
`pc` and `addr` advance by its length, the operand is read, the result and the flags
are stored, and `serialize()` or `option.flush()` ends the pass. A repeat prefix is a
pass of its own, as in the code. A repeated string instruction takes one step per
turn of its `while` loop (`stringop` says which loop is running), so that its loops
can be asked about as loops.

`reg` is the `reg` union; byte registers are halves of its words. Of `sreg` the five
flags the code uses are kept. `text` and `data` are functions on the addresses that
were ever loaded or stored; all other bytes are the 0 of `init()`. `val16` is the
local variable that some cases leave for others to read (`Leftovers`: what it may
hold before it is set). `status` says how the loop ended: `returned` (exit in a
child, or after it in general), `exit` (`exit(1)` of the unsupported cases), `crash`
(SIGFPE of the host, or exec of a file that is not there), `overrun` (an access
beyond the arrays; what happens then is not modelled).

What the code does differently from an 8086 is in the model as it is in the code:
`and` of 80 /4 ignoring its immediate, `a8`/`a9` exchanged, `shr r/m8,cl` not
shifting, `rcl`/`rcr` by a count, `xchg` computing its address twice, `ret imm16`
adding a byte, `cld` doing nothing, `int` keeping the prefix.

The system calls are an environment: a call stores what it likes of `OsStores`,
replies what it likes of `OsReplies`, and exec brings in any of `Loads`. exit and
the unsupported call end the loop.

### MinixProc

The dual view: the programs are an environment and the calls are exact. `frames` is
the stack of nested calls of `run()`; its top is the only process that acts. Fork
builds a runtime (`ready`); `WaitRuns` is the part of `minixwait` before it calls
`run()` and `WaitReturns` the part after, with everything the child does in between,
its own forks and waits included. `pid` is the member that `wait` overwrites;
`NewPid` is what `createPid` makes of the static counter. A second `wait` runs a
deleted object: `ended = "wild"`, and nothing is said of what follows. `sigary` of a
new `X86Minix` may hold anything.

The calls from `Brk` on change neither processes nor frames. Files are the host's:
a call that asks the host may succeed or fail as the descriptor allows, and of its
effects the memory it stores to, the descriptors open and written through, `errno`
and the reply are kept. The result of `write` goes through an int16, so that 65535
bytes come back as whatever `errno` held. `Callers` says which processes make these
calls in a run; they are independent of each other, and one caller beside silent
processes shows everything that one descriptor table and one `errno` can do.

### X86Listing, X86Disassm, X86Listed

`X86Listing` is pure: `Decoded(b, a)` takes the bytes at an address apart as the
switch of `disassm()` does and gives the kind of the line (shown, undefined, a
prefix, or none: an `ext` without a case), the number of bytes fetched and the
operands `X86Dump` prints. Mnemonics and formats are layout and left out.

`X86Disassm` is the loop around it. A prefix waits in `option` for the next line that
is serialized; `missed` is history: bytes for which there will be no line (a second
prefix replaces the first; an instruction without a case has none). Bytes fetched
past the end of the code are any (`Heaps`).

`X86Listed` adds no state: for each pass of `X86Runtime` it decodes the same bytes
with `X86Listing` and says that both agree. Two instructions are executed and not
listed (`Unlisted`: or r/m8,imm8 and adc r/m16,imm16 have no case in `disassm()`).

### Launch

A program starts from the command line or from `exec`. `MinixBlock` and `V6Block` are
the stacks the two `processArgs` build; `Places` says where each string comes to lie.
`AskExec` is the C library of the program: it builds a frame with pointers relative
to it and a message; `ExecLoads` is `execSysCall` and `minixexec`: read the frame,
convert the path, clear, load, build the stack, and reply at BX in the new image. A
file that is missing or has no known magic number leaves sizes uninitialised, and an
empty environment reads `envp[0]`: stage `wild`, of which nothing more is said. V6
calls fetch their arguments from the code; every one ends `run()`.

Files, command lines and requests are constants; memory holds real bytes, since
whether strings and pointers meet is the question. A byte of a path stands for four
characters of it, which is enough for `convertPath`: it tests for the strings `/tmp`
and `/usr/tmp`.

## Runs

Bounds are named in the MC modules and cfgs.

| Run | Bounds | Shows |
|---|---|---|
| `MCX86Alu` | 22 boundary values of bytes and words for each operand, counts 0..31, both OF and CF | every condition fits every comparison (`CompareRight`); chains of byte instructions equal word instructions (`WordsByBytesRight`); a shift by CL is CL shifts (`ShiftByCountRight`); div, idiv and mul undo each other (`DivisionsRight`). Left out by name: O of sbb where `SbbMisled`, the carry of sar where `SignLost`. Where the code branches on a value, it does so at the boundaries sampled |
| `MCX86Code` | comparisons: 6 x 6 values, 8 ways to compare, 4 fillers, 10 conditions; stack: any three of 9 snippets and then one of 4 pops, SP of 0, 1 or 40000; loops over 3-digit numbers with digits 0, 128, 255, all pairs for add and sub, all numbers for neg, shl, shr and div | `JumpsDecideComparison` across the fetch, decode and execute of several instructions; `PopsFindPushed`, with words split between 65535 and 0, calls, returns and stores over a pushed word; `LongArithmeticRight`: carries that run through every digit, or stop in the middle |
| `MCX86Strings` | 5 instructions, 3 prefixes, both directions, counts 0..3, 5 placements, 2 memories; one scan that never finds its byte; all programs of 3 of 11 snippets around int 20, with 2 replies, 2 stores and exec; with a trace | `StringRight`, `StringsEnd`, and `PrefixIsSpent` under system calls |
| `MCX86Opcodes` | 256 opcodes x 8 ext x 7 operands, code at the ends of the segment, exec of each of these programs | `TypeOK`, `AddrFollowsPc`, `StoresStayInOperand`; for the same bytes `ListingInStep` (what is executed has a line, of the same length, with the same jump target), `ListingNamesChanges` (what changes is the operand printed first, or one the 8086 does not name), `MovesAsListed` (printed registers, displacements and numbers are the ones moved); with the others, every action fires |
| `MCX86Disassm` | texts of three pieces out of 17 (prefixes, instructions with and without a line, V6 calls, cut-off ones), two kinds of heap behind them, symbol tables with and without names, and of 65532 and 65533 bytes | `BytesShownOnce`, `AddressesTrue`, `LabelsInPlace`, `SweepEnds`, and `TypeOK`, which bounds how far past the end a cut-off instruction is read |
| `MCLaunch` | up to three arguments of lengths 0 to 3, and one of 25; files of both kinds, of none, missing, and one whose data reaches the arguments; paths with `/tmp` in front, inside and nowhere; any number of execs, with messages in the middle of memory, at the end of the new arguments and right below them; V6 calls direct and indirect, each write of 2 or 3 bytes of their own | `ArgumentsArrive`, `StackAligned`, `ImageIntact`; `V6CallsAsListed`: a call goes on after as many words as its listing has, and writes the bytes they name |
| `MCMinixProc` | 3 runtimes, one cell, 1 value, 2 images, breaks 15 and 16 around a data size of 16, an SP of 4196, one descriptor, lengths 1 and 65535, one caller | `TypeOK`, `FramesNest`, `WaitIsDecided`, `WaitAnswersFork`, `PidsAreFresh`, `BreakAboveData`, `FailuresChangeNothing`. Three runtimes give a child that waits for a child of its own, and two children of one parent, which are the two ways the members can be overwritten; the caller is the second, which has a parent and can have a child |
| `MCMinixInTurn` | 3 runtimes, exit codes 0 and 1, words 0 and 1 in memory and in handlers, a break of 15 that is refused, one descriptor, lengths 1 and 65535, one caller | `ImplementsUnix` (below); `FailuresChangeNothing` where memory and handlers change, as `MCMinixProc` has it where the break does |

`ImplementsUnix` is the refinement: under programs that have one child at a time and
wait for it, the interpreter's order (the child runs inside the parent's wait) is
one of the orders that `UnixProc` allows. A process inside `wait` is still `alive`,
one whose `run()` returned is a `zombie`, one whose runtime was deleted is `gone`.
`UnixProc` says that `wait` stores the status of the code its child ended with; how a
code comes out as a status word is its constant `Status(_)`, and the refinement gives
it what the code computes, `ret << ret`. So it shows for every code that the right
child's code arrives, once, at the right parent; that the word is not the one of
`wait(2)` is the finding `StatusTellsCode`.

`FailuresChangeNothing` takes for a failure (`Failing`) one of the error numbers
negated, or the -1 that open and close reply. It leaves out by name a write of 65535
bytes, which succeeds and replies whatever `errno` held.

Four runs each refute one statement that a manual page kept in the repository makes
and the code does not keep; PROJECT.json quotes them under "findings":

* `MCX86Manual_RepeatsNext`: a prefix before `int` survives it and repeats the next
  string instruction, unless a trace is written.
* `MinixManual_WaitFailsAgain`: a second `wait` without a child uses the deleted
  runtime instead of failing.
* `MinixManual_ChildrenAreWaitedFor`: a second `fork` before the `wait` forgets the
  first child, which no `wait` will find.
* `MinixManual_StatusTellsCode`: the status is `ret << ret`, not `ret << 8`.

Other disagreements are modelled as the code does them and have no run of their own:

* in `x86runtime.cpp`: `setDF(false)` computes `sreg & ~D_BIT` without assigning it,
  so `cld` does nothing (457), against `as(9)`; `xchg` writes the register and then
  works the address of its other operand out again (1653), so that with a register of
  the address the second half of the exchange goes elsewhere; the carry of sar of a
  negative word by 17 places and more is lost (186), and O of sbb is wrong where the
  subtrahend and the borrow cross the sign boundary together (922), both left out by
  the properties of `X86AluRules`; `and` of 80 /4 ignores its immediate (1542); a8
  and a9 are exchanged (1882); `ret imm16` adds a byte (1992); `shr r/m8,cl` does not
  shift (2229); byte `mul` leaves AH (2420);
* in `x86minix.cpp`: descriptors belong to all processes (81); `sigaction` reads act
  even when it is NULL (162); a child that is not waited for never runs (239), and
  its handlers are not its parent's, against `fork(2)`; wait without a child replies
  0 (258); wait overwrites the pid that getpid replies (261), against `getpid(2)`;
  exec clears SIG_IGN (298);
* in `minix.cpp`: open and close reply -1 and not -errno (132, 136); write of 65535
  bytes replies an old errno (114); exec stores its reply in the new image (283), on
  its data or its arguments if BX lies there, which `ImageIntact` and
  `ArgumentsArrive` have to leave out;
* in `os.cpp`: a path with `/tmp` inside is cut at the front (17), which
  `ImageIntact` has to leave out;
* in `unixv6.cpp` and `x86unixv6.cpp`: every call ends the program (115); write
  clears the carry when it fails (51); V6 programs get no 0 after argv;
* in `x86disassm.cpp`: prefixes replaced by a second one or before an instruction
  without a case get no line of their own (396, 1290); code cut off is read past its
  end (203 is the one case that looks); a symbol table of more than 65532 bytes is
  read for ever (36).

Fairness: `Spec` of `X86Runtime` has WF on `Next`. The loop of `run()` is one thread
that waits for nothing, so as long as a pass can be taken one is. It is used by
`StringsEnd` only. `X86Disassm` has the same, for `SweepEnds`, with the same reason.
`MinixProc` and `Launch` have no fairness: programs may stop making calls, and only
safety is asked of them.

Deadlock is checked in every run; a machine that has stopped stutters in an action
of its own (`Stopped`, `Over`).

## Proofs

Every property of a passing run is a theorem but the ones named at the end of this
section. What each theorem assumes are the ASSUMEs of the module it is about, which
TLC evaluates in the runs.

Induction: the provers cannot instantiate a theorem with an operator parameter, so
`FlatSequences` states induction for sets (`Induction`: a set that has 0 and with n
also n + 1 has all naturals; `SequenceInduction` alike), and a proof takes for the set
the numbers that satisfy its claim. From it follow the laws of `FlattenSeq`, in which
`Launch` and `X86Disassm` are written.

### The processor

`X86RuntimeProofs` proves, for all constants that satisfy the assumptions of
`X86Runtime` (loads, stores and replies consist of bytes and words):

* `TypeCorrect`: `Spec => []TypeOK`. No register leaves its 16 bits, no cell its
  byte, no store falls outside the segment, `pc` stays below 65544 (an instruction of
  at most eight bytes may start at the last address).
* `AddrFollows`: `Spec => []AddrFollowsPc`. `addr = pc % 65536`.
* `StoresStay`: `Spec => StoresStayInOperand`. A step changes no byte but those its
  instruction names under the registers before it. Only for `xchg` the address is
  that of the registers after it (`StoreAddress`), as the code has it: if the
  register exchanged is part of the address, that is not the operand named, and the
  theorem does not say it is. There is one lemma for each way to store
  (`WriteEAStores`, `PushStores`, ...) and each rests on `TypeOK` only.
* `PrefixesAreSpent`: `Debug /\ Spec => PrefixIsSpent`. The hypothesis is needed:
  without a trace a prefix before `int` survives it, and the run
  `MCX86Manual_RepeatsNext` shows the consequence. The invariant is `PrefixPending`:
  between two passes a prefix is in force only if it is the byte before `pc`.

`TypeOK` is inductive by itself, `AddrFollowsPc` needs it, so the invariant is their
conjunction. `X86AluProofs` has one lemma for each operator of `X86Alu`: given words
(or bytes), the record it returns has a word (or byte) in `val` and Booleans
elsewhere. `X86RuntimeProofs` has one lemma for each action, most of them saying
that the action keeps registers and data typed (`Typed`) and moves `pc` and `addr`
together (`Placed`); `StepType` puts them together. Arithmetic on bits is kept out of
the provers by a table of powers of two (`Power`) and by typing `InBoth` only.

`X86WatchProofs` proves, under the same assumptions, what `X86Watch` promises:

* `JumpsDecide`: `WatchedSpec => JumpsDecideComparison`. In every program a
  conditional jump goes by the relation of the operands last compared.
* `PopsFind`: `WatchedSpec => PopsFindPushed`, in every program and for every SP.
* `StringsRight`: `WatchedSpec => StringRight`. A string instruction that ends has
  handled the elements the manual says, whatever the count, direction and overlap.

`JumpsDecide` needs an invariant that relates the history to the machine:
`FlagsTell` says that while a comparison is on record, Z, S, O and C are those of
`Sub` of the recorded operands. It holds only while the machine runs (a refused
`cmp` is recorded and not executed), so the inductive invariant is `TellingInv`:
`TypeOK`, and `FlagsTell` if running. Every action keeps it in one of three ways:
it keeps the four flags (`Quiet`), the manual's reader forgets the comparison
because the instruction may set them (`Forgets`), or it compares (`Tells`). The
arithmetic is one lemma, `CompareDecides`: for all operands of both widths, each
condition read from the flags of `Sub` is its relation.

The invariant of `PopsFind`, `HoldingInv`, is `TypeOK`, `AddrFollowsPc` and, while
the machine runs, `HeldThere`: each word the history still holds is what memory has
at its two bytes. Only `PushReg`, `PushEA`, `Call` and `CallEA` put a word on record
(`PushesOnly`), and each stores the word it is said to push where SP ends up
(`PushesNamed`, `PushedLies`). Every other step drops the words one of whose bytes it
changed and keeps the rest (`KeptThere`). So a pop that the history answers reads the
same two bytes the push wrote, across 65535 and 0 as well.

The invariant of `StringsRight` is `TypeOK` and `InString`: while a loop runs there
is a number k, below the limit that CX sets, such that k elements are handled:
registers and memory are what they were at the start, moved on by k, and none of
the k has met the condition of its prefix. Memory is the hard part, because an
element may be read where an earlier one was written; `MemoryAt` says of each byte
what it holds after k elements, and `MemoryNext` takes it from k to k + 1.

It also proves what `X86Listed` says of the processor beside its listing, for every
byte that can be fetched; `MCX86Opcodes` has each opcode, ext and kind of operand, but
not each displacement, immediate and register content:

* `ListingFollows`: `Spec => ListingInStep`. The next pass is at the next line, a jump
  goes where its line says, and but two instructions all that is executed has a line.
* `MovesListed`: `Spec => MovesAsListed`. A mov leaves the value of the operand printed
  second in the one printed first.
* `ChangesListed`: `Spec => ListingNamesChanges`. Nothing changes but what the line
  names as destination, or the 8086 unnamed. The exception in the property is needed:
  `xchg` of a register with memory stores by the register it has just changed.

They rest on `TypeOK` alone. `SameFields` shows that the two decoders take the same
fields out of the bytes, `SameDisp` and `SameCell` that a displacement printed with
its sign and one added modulo 65536 name the same address. One lemma for each group
of opcodes says which line they have (`ArithmeticLines`, `MoveLines`, ...), and
each action is held against its line: for the first theorem by its `Advance` or jump
(`GoesOn`, `GoesShort`, `GoesDirectly`), for the others by what `WriteEA`,
`WithRegister` and the stack leave in the printed operand (`EALeft`, `EANamed`,
`PushNamed`). Working out the lines needs the branches of the listing's CASEs to
exclude each other, since TLA+ does not say which of two true branches is taken.

### Arithmetic

`X86AluSweepProofs` proves the four properties of `MCX86Alu` for any set of operands
that are words, so for all 65536 of them at once: `ComparesDecide`,
`ChainsEqualWords`, `CountsAreRepeats` and `DivisionsUndone`. The run tries the
boundaries; the invariant `Swept` says no more than that the operands are words and
the count a natural number, and each rule is a lemma about words.

* Chains: a word is `lo + 256 * hi`; the sum of the high bytes and of the carry is
  the high part of the whole sum, with the same top bit (`TopOfHigh`) and overflow.
  For sub/sbb the overflow is claimed only outside `SbbMisled`: the subtrahend's high
  byte is 127 and there is a borrow, so that `sbb` adds them up to 128 before it
  looks at signs.
* Counts: by induction the n-th shift by one is at `ShiftLeft(x, n - 1)`
  (`LeftCourse`), `ShiftRight` or `SignedRight`; one more gives the shift by n, in
  value, Z, S and carry. The carry of sar is claimed outside `SignLost`: a negative
  word and more than 16 places.
* Divisions: `Divided` shows that the division in two steps of a byte is `\div` of
  the whole dividend, `Multiplied` that `mul` by bytes is the product; both name `n *
  q` before they reason about it, since the SMT solver has no theory of products.
  `WithSign` shows that the signs `idiv` puts on do not overflow the word.

### The disassembler

`X86DisassmProofs` proves, for every file, symbol table and heap behind the text:
`ListingTyped` (`TypeOK`), `BytesShown` (`BytesShownOnce`), `AddressesRight`
(`AddressesTrue`) and `LabelsRight` (`LabelsInPlace`). The invariant has four parts:

* `Typed`: `TypeOK`, the lines are lines, a waiting prefix has the one byte it was
  read from, and nothing is written while `setSymbol` runs. That `p` stays within
  six bytes of the end rests on `DecodedCut`: whatever its bytes, an instruction is
  one to six bytes long.
* `Listed`: `BytesShownOnce`, and all bytes between a waiting prefix and `p` were left
  out: what comes next follows the prefix in the listing.
* `Counted`: while nothing was left out, the bytes written and waiting are as many as
  were passed, so an address counted from the lines is one counted in the text.
* `Labelled`: `LabelsInPlace`, labels lie before `p` (so none is written twice), and a
  waiting prefix that has a name has had its label.

There is one lemma for each action and each part.

### Starting programs

`LaunchProofs` proves for every set of files, command lines and requests:
`LaunchTyped` (`TypeOK`), `ProgramsFindTheirArguments` (`ArgumentsArrive`),
`StacksAreAligned` (`StackAligned`), `TheProgramNamedRuns` (`ImageIntact`) and
`CallsTakeTheirWords` (`V6CallsAsListed`). Two assumptions are about sizes the code
does not check: `BlocksAssumption`, arguments fit in a segment, and
`FramesAssumption`, the message, the path and the frame of an exec lie in the segment
and not on each other, as the C library lays them out.

The invariant `Inv` is `TypeOK` and the three invariants above with two more: `Asked`
(between a program's request and the system's answer, memory holds what was asked
for: without it nothing says what `ExecLoads` reads) and `PcFits` (a program that
makes a call is within its code). The rest says where each piece of a block of
arguments lies: a word or a string of a flattened sequence begins at the sum of the
lengths before it (`FlattenAt`), and what follows a pointer up to a 0 byte is the
string it points to (`CStringFound`), since strings have no 0 byte. A block is laid
out by one loop and a frame read back by another; `BlockFound` says that the places
noted in a block are those of its strings, and `FrameRead` that `execSysCall` takes
from a frame what it was built from.

`CallsTakeTheirWords` has two parts: where a call goes on (`V6CallParts`) and what it
gives the host (`V6CallWrites`), the bytes that the words of the listing name. Both
decoders take these words from the code, or from the address in it for an indirect
call; there the interpreter wraps at 65535 and the listing is only asked of a call
that does not reach over the end.

### Processes

`MinixProcProofs` proves, for any number of runtimes (as many as have a pid that fits
`m_type`), any images, arguments and cells:

* `TypesKept`: `Spec => []TypeOK`, and `BreaksAboveData`: `Spec => []BreakAboveData`.
* `NestingOfRuns`: `Spec => []FramesNest`, and `WaitsDecided`: `Spec =>
  []WaitIsDecided`.
* `WaitGivesForkedPid`: `Spec => WaitAnswersFork`, and `FreshPids`: `Spec =>
  PidsAreFresh`.

The invariant has two halves. `Tree` speaks of the five variables that `fork`, `wait`
and `exit` change: `FramesNest`; `TopDecided` (the process that acts has no child in
any frame); `Unborn` (runtimes are created in order, and a runtime that has not run
has no child); and `PidsKnown`: no pid is above the last one given out, a runtime
that has not run still has its own, and one that waits has its child's. The last
makes `WaitAnswersFork` true: while the child runs, only the process on top changes
pids, and the waiting one is below it. `WaitIsDecided` and `FramesNest` need each
other: that a child starts without children of its own is what keeps the new top
decided, and that the frame below a returning child is the one that waits for it
needs the nesting. There is one lemma for each of the five actions that change these
variables. `Holding` types the rest and has `BreakAboveData`; it needs `Tree` for the
process on top and the child of a wait.

`FailuresLeaveNothing` is `FailuresChangeNothing` under two hypotheses: `RepliesTold`
(no length or descriptor is one of the error numbers as a uint16, 65514 and above,
and no descriptor is 65535, the -1 of open and close) and `[]HandlersTold` (no
handler is at such an address). They cannot be left out: `signal` replies the old
handler and `read` the number of bytes, and a program could not tell these from a
failure. It needs no invariant but the types: in every call the checks come before
the first store.

It also proves `ImplementsProcesses`: `InTurnSpec => ImplementsUnix`, for any
number of runtimes, any images and any exit codes. It adds one invariant to `Tree`
and `Holding`: `Kinship` says that nobody is the child of two runtimes and that no
child comes before its fork. Then every step is mapped: `fork`, `exit` and the
second half of `wait` to `Fork`, `Exit` and `Reap`; the first half of `wait`, which
enters the child's `run()`, to no step, since the child has been alive since its
fork; all other calls to `Compute`, because they store in the memory of the caller
only (`StaysOwn`). Dealing with one child at a time is needed where `fork` forgets a
child built before, which a `UnixProc` child would outlive, and where `exit` leaves
one that will never run.

### Checked by TLC alone

* `StringsEnd` and `SweepEnds`: liveness is out of TLAPS's reach.
* `LongArithmeticRight` is about particular programs of several loops; the carries it
  is there for are those of `ChainsEqualWords`.

## Not modelled

Option parsing (`main.cpp`), `Binary::disassm`, which picks the part of a file to
list, and `UnixV6::createSymbolTable`, whose loop is that of `setSymbol`. Mnemonics
and number formats of the listing, among them that a negative byte is printed with
the sign extended to 32 bits. What the host does with files beyond success, failure
and descriptors. The processor of V6 programs, which is that of Minix programs but
for the one segment; `Launch` has the calls and the stack only. What happens after an
access beyond the arrays, the use of a deleted runtime or an uninitialised field is
not modelled either: the model says that it happens and stops. The debug limits of
`run()` are left out. `tests/asem` and `tests/interpreter.c` share no code with mmvm.

## Plan

A composition in which MinixProc's processes are X86Runtime machines that run small
programs which fork, wait and exit.
