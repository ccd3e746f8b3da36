------------------------------- MODULE Launch -------------------------------
(***************************************************************************)
(* How a program comes to run: Binary reads a file and knows its kind by   *)
(* the first two bytes, X86Runtime::setBinary places it, processArgs of    *)
(* Minix or UnixV6 puts the arguments on its stack.  A Minix program may   *)
(* then ask for another one with exec; a Unix V6 program may make one      *)
(* system call, after which run() returns.                                 *)
(*                                                                         *)
(* What a program computes is not modelled, only what it leaves for such a *)
(* call.  Signal handlers and the other calls of Minix are in MinixProc.   *)
(***************************************************************************)
EXTENDS X86Memory, SequencesExt

CONSTANTS
  Files,         \* what the host has: a function from paths to files
  RootPath,      \* the path given with option -r, empty without it
  CommandLines,  \* arguments of the interpreter; the first names the program
  Requests,      \* what Minix programs ask exec for
  V6Calls,       \* what V6 programs have in memory when they make a system call
  Leftovers      \* what bss_size may hold when no header sets it

Listing == INSTANCE X86Listing

\* A string has no 0 in it.  In a path each byte stands for four characters: one of
\* these, or the name of some other component; Dots is one that has no slash.
Strings == Seq(Byte \ {0})
Usr == 1
Tmp == 2
Dots == 3

\* A file with a header has as many bytes as that says, and a program of Unix V6, text
\* and data, is no larger than its segment.
ASSUME FilesAssumption ==
  \A f \in DOMAIN Files :
    /\ f \in Strings /\ f # <<>> /\ Files[f].kind \in {"minix", "v6", "other"}
    /\ IsMemory(Files[f].text) /\ IsMemory(Files[f].data)
    /\ Files[f].tsize \in Word /\ Files[f].dsize \in Word /\ Files[f].bss \in Word
    /\ Files[f].kind # "other" => /\ DOMAIN Files[f].text \subseteq Values(Files[f].tsize)
                                 /\ DOMAIN Files[f].data \subseteq Values(Files[f].dsize)
    /\ Files[f].kind = "v6" => Files[f].tsize + Files[f].dsize <= 65536
ASSUME ArgumentsAssumption ==
  /\ RootPath \in Strings /\ Leftovers \subseteq Word
  /\ \A c \in CommandLines : c # <<>> /\ c \in Seq(Strings)
ASSUME RequestsAssumption ==
  /\ \A r \in Requests :
       /\ r.path \in Strings /\ r.argv \in Seq(Strings) /\ r.envp \in Seq(Strings)
       /\ {r.message, r.pathAt, r.frame} \subseteq Word
  /\ \A c \in V6Calls : IsMemory(c.memory) /\ c.ax \in Word /\ c.pc \in Word

VARIABLES
  os,       \* os_type of the runtime
  text,     \* the text segment
  data,     \* the data segment, for V6 the same memory
  sizes,    \* datasize and brksize
  sp, bx, ax, pc, carry,
  stage,    \* fresh: about to run; asking: has stored the arguments of a call; ...
  asked,    \* history: what was asked for when this program was started
  output    \* what write has been given: [fd, bytes]

vars == <<os, text, data, sizes, sp, bx, ax, pc, carry, stage, asked, output>>

\* returned: run() is over; exit: exit() was called; wild: something uninitialised
\* or past its end has been used, and anything may happen.
Stages == {"fresh", "asking", "returned", "exit", "wild"}

WordAt(m, a) == Pair(At(m, a), At(m, a + 1))
Zeros == [a \in {} |-> 0]

\* A C string of memory, and the words from a on up to one that is 0.
CString(m, a) ==
  LET n == CHOOSE k \in Values(65537) : At(m, a + k) = 0 /\ \A j \in 0 .. k - 1 : At(m, a + j) # 0
  IN  [j \in 1 .. n |-> m[a + j - 1]]
Pointers(m, a) ==
  LET at(k) == WordAt(m, (a + 2 * k) % 65536)
      n == CHOOSE k \in Values(32769) : at(k) = 0 /\ \A j \in 0 .. k - 1 : at(j) # 0
  IN  [j \in 1 .. n |-> at(j - 1)]
-----------------------------------------------------------------------------
Within(t, s) == \E i \in 0 .. Len(s) - Len(t) : SubSeq(s, i + 1, i + Len(t)) = t

\* Mutant of ConvertPath: the shorter target is looked for first.
ConvertPathTmpFirst(p) ==
  IF p = <<>> \/ p[1] = Dots THEN p
  ELSE IF Within(<<Tmp>>, p) THEN <<Tmp>> \o SubSeq(p, 2, Len(p))
  ELSE IF Within(<<Usr, Tmp>>, p) THEN <<Tmp>> \o SubSeq(p, 3, Len(p))
  ELSE RootPath \o p

\* convertPath: wherever the target is found, it is the beginning that is replaced.
ConvertPath(p) ==
  IF p = <<>> \/ p[1] = Dots THEN p
  ELSE IF Within(<<Usr, Tmp>>, p) THEN <<Tmp>> \o SubSeq(p, 3, Len(p))
  ELSE IF Within(<<Tmp>>, p) THEN <<Tmp>> \o SubSeq(p, 2, Len(p))
  ELSE RootPath \o p

\* readFile and init; the sizes of a file that is not there or has no header that is
\* known are left uninitialised.
NoFile == [kind |-> "other", text |-> Zeros, data |-> Zeros, tsize |-> 0, dsize |-> 0, bss |-> 0]
FileAt(path) == IF path \in DOMAIN Files THEN Files[path] ELSE NoFile
-----------------------------------------------------------------------------
\* Arguments, as they lie in memory from SP upwards.
Ended(strings) == [k \in DOMAIN strings |-> strings[k] \o <<0>>]
Characters(strings) == FlattenSeq(Ended(strings))
Words(ws) == FlattenSeq([k \in DOMAIN ws |-> <<LowByte(ws[k]), HighByte(ws[k])>>])

\* Mutant of Padding: the zeros that end the strings are not counted.
PaddingOfText(strings) == IF Len(FlattenSeq(strings)) % 2 = 1 THEN <<0>> ELSE <<>>

Padding(strings) == IF Len(Characters(strings)) % 2 = 1 THEN <<0>> ELSE <<>>

\* Mutant of Places: the address is noted before the characters are pushed.
PlacesOfEnds(strings) ==
  [k \in DOMAIN strings |->
     (Len(strings[k]) - Len(Characters(SubSeq(strings, k, Len(strings))) \o Padding(strings)))
       % 65536]

\* The address of each string: SP was 0, and they end at the end of memory.
Places(strings) ==
  [k \in DOMAIN strings |->
     (-Len(Characters(SubSeq(strings, k, Len(strings))) \o Padding(strings))) % 65536]

\* Minix::processArgs; there is one environment string.
MinixBlock(argv, env) ==
  LET strings == Append(argv, env)
      n == Len(argv)
      at == Places(strings)
  IN  Words(<<n>> \o SubSeq(at, 1, n) \o <<0, at[n + 1], 0>>)
      \o Characters(strings) \o Padding(strings)

\* UnixV6::processArgs: no 0 after the pointers, and no environment.
V6Block(argv) ==
  LET block == Words(<<Len(argv)>> \o Places(argv)) \o Characters(argv) \o Padding(argv)
  IN  IF Len(block) % 2 = 1 THEN <<0>> \o block ELSE block

\* SP under a block pushed on a stack that is empty, and memory with the block.
Bottom(block) == (-Len(block)) % 65536
Pushed(m, block) ==
  StoreAll(m, [a \in Bottom(block) .. 65535 |-> block[a - Bottom(block) + 1]])
-----------------------------------------------------------------------------
\* The environment of every program the interpreter starts itself: the 18 characters
\* PATH=/usr:/usr/bin.
DefaultEnv == [k \in 1 .. 18 |-> 80]

FromCommand(argv) == [call |-> FALSE, path |-> argv[1], argv |-> argv, env |-> DefaultEnv]

StartMinix(argv) ==
  LET f == FileAt(argv[1])
      block == MinixBlock(argv, DefaultEnv)
  IN  /\ f.kind = "minix" /\ os = "minix"
      /\ text = f.text /\ data = Pushed(f.data, block)
      /\ sizes = [data |-> f.dsize, brk |-> f.dsize + f.bss]
      /\ sp = Bottom(block) /\ stage = "fresh"

\* Text and data are one segment; setBinary has no break here and falls through.
StartV6(argv) ==
  LET f == FileAt(argv[1])
      memory == StoreAll(f.text, [a \in {f.tsize + b : b \in DOMAIN f.data} |-> f.data[a - f.tsize]])
      block == V6Block(argv)
  IN  /\ f.kind = "v6" /\ os = "v6"
      /\ text = Pushed(memory, block) /\ data = text
      /\ sizes = [data |-> 0, brk |-> 0]
      /\ sp = Bottom(block) /\ stage = "fresh"

\* cpu_type and os_type, or the size of the buffer, are uninitialised.
StartWild(argv) ==
  /\ FileAt(argv[1]).kind = "other"
  /\ os = "minix" /\ text = Zeros /\ data = Zeros
  /\ sizes = [data |-> 0, brk |-> 0] /\ sp = 0 /\ stage = "wild"

Init ==
  /\ \E argv \in CommandLines :
       /\ StartMinix(argv) \/ StartV6(argv) \/ StartWild(argv)
       /\ asked = FromCommand(argv)
  /\ bx = 0 /\ ax = 0 /\ pc = 0 /\ carry = FALSE
  /\ output = <<>>
-----------------------------------------------------------------------------
\* What the C library of a Minix program builds for exec: the path, a frame whose
\* pointers are relative to it, and a message.
Relative(r) ==
  LET strings == r.argv \o r.envp
      before == 2 * (Len(strings) + 3)
  IN  [k \in DOMAIN strings |-> before + Len(Characters(SubSeq(strings, 1, k - 1)))]
Frame(r) ==
  LET n == Len(r.argv)
      at == Relative(r)
  IN  Words(<<n>> \o SubSeq(at, 1, n) \o <<0>> \o SubSeq(at, n + 1, Len(at)) \o <<0>>)
      \o Characters(r.argv \o r.envp)
PlacedAt(bytes, a) == [b \in a .. a + Len(bytes) - 1 |-> bytes[b - a + 1]]
StoreBytes(m, a, bytes) == StoreAll(m, PlacedAt(bytes, a))
Message(m, r) ==
  LET number == StoreBytes(m, r.message + 2, Words(<<59>>))
      pointers == StoreBytes(number, r.message + 10, Words(<<r.pathAt, r.frame>>))
      path == StoreBytes(pointers, r.pathAt, r.path \o <<0>>)
  IN  StoreBytes(path, r.frame, Frame(r))

\* The message, the path and the frame lie in the segment and apart from one another,
\* as they do on the stack and in the data of a C program.
MessageArea(r) == r.message + 2 .. r.message + 13
PathArea(r) == r.pathAt .. r.pathAt + Len(r.path)
FrameArea(r) == r.frame .. r.frame + Len(Frame(r)) - 1
ASSUME FramesAssumption ==
  \A r \in Requests :
    /\ MessageArea(r) \cup PathArea(r) \cup FrameArea(r) \subseteq Word
    /\ MessageArea(r) \cap PathArea(r) = {} /\ MessageArea(r) \cap FrameArea(r) = {}
    /\ PathArea(r) \cap FrameArea(r) = {}

\* The arguments of a program fit in its segment; the code does not look.
ASSUME BlocksAssumption ==
  /\ \A c \in CommandLines : Len(MinixBlock(c, DefaultEnv)) <= 65536 /\ Len(V6Block(c)) <= 65536
  /\ \A r \in Requests : r.envp # <<>> => Len(MinixBlock(r.argv, r.envp[1])) <= 65536

AskExec ==
  /\ stage = "fresh" /\ os = "minix"
  /\ \E r \in Requests :
       /\ data' = Message(data, r)
       /\ bx' = r.message
       /\ asked' = [call |-> TRUE, path |-> r.path, argv |-> r.argv, env |-> r.envp]
  /\ stage' = "asking"
  /\ UNCHANGED <<os, text, sizes, sp, ax, pc, carry, output>>

\* execSysCall, case 59: what it finds in the program's memory.
FrameFound == WordAt(data, bx + 12)
PathFound == CString(data, WordAt(data, bx + 10))
FirstPointers == Pointers(data, FrameFound + 2)
ArgvFound == [k \in DOMAIN FirstPointers |-> CString(data, FrameFound + FirstPointers[k])]
EnvFound ==
  LET ps == Pointers(data, FrameFound + 2 * Len(FirstPointers) + 4)
  IN  [k \in DOMAIN ps |-> CString(data, FrameFound + ps[k])]
FileFound == FileAt(ConvertPath(PathFound))

Execing == stage = "asking" /\ os = "minix"

\* Mutant of NewImage: data memory is not cleared.
ImageOverOld(f) == StoreAll(data, f.data)

\* minixexec clears both segments before it loads.
NewImage(f) == f.data

\* Nothing looks at the magic number: a V6 binary is run as one of Minix.  The reply
\* is stored at BX in the new image, after its arguments.
ExecLoads ==
  /\ Execing /\ FileFound.kind # "other" /\ EnvFound # <<>>
  /\ LET f == FileFound
         block == MinixBlock(ArgvFound, EnvFound[1])
     IN  /\ text' = f.text
         /\ data' = StoreWord(Pushed(NewImage(f), block), bx + 2, 0)
         /\ \E bss \in (IF f.kind = "minix" THEN {f.bss} ELSE Leftovers) :
              sizes' = [data |-> f.dsize, brk |-> f.dsize + bss]
         /\ sp' = Bottom(block)
  /\ pc' = 0 /\ stage' = "fresh"
  /\ UNCHANGED <<os, bx, ax, carry, asked, output>>

\* stat and read of a file that is not there are not checked, nor is its header; and
\* processArgs reads envp[0].
ExecWild ==
  /\ Execing /\ (FileFound.kind = "other" \/ EnvFound = <<>>)
  /\ stage' = "wild"
  /\ UNCHANGED <<os, text, data, sizes, sp, bx, ax, pc, carry, asked, output>>
-----------------------------------------------------------------------------
\* A V6 program comes to cd 07; the call's number is the next byte to fetch.
AskV6 ==
  /\ stage = "fresh" /\ os = "v6"
  /\ \E c \in V6Calls :
       data' = StoreAll(data, c.memory) /\ text' = data' /\ ax' = c.ax /\ pc' = c.pc + 2
  /\ carry' \in BOOLEAN
  /\ stage' = "asking"
  /\ UNCHANGED <<os, sizes, sp, bx, asked, output>>

V6Calling == stage = "asking" /\ os = "v6"
Systype == At(text, pc)
Fetched2(k) == WordAt(text, pc + k)

\* Mutant of Writing: what the host answers is kept in an int.
WritingInt(at, len) ==
  /\ output' = [fd |-> ax, bytes |-> [k \in 1 .. len |-> At(data, at + k - 1)]]
  /\ ax' \in {len, -1}
  /\ carry' = FALSE

\* v6write: whatever the host answers, the carry is cleared.
Writing(at, len) ==
  /\ output' = [fd |-> ax, bytes |-> [k \in 1 .. len |-> At(data, at + k - 1)]]
  /\ ax' \in {len, 65535}
  /\ carry' = FALSE
NotWriting == UNCHANGED <<ax, carry, output>>

\* execSysCall gives 0 back for every call, which ends run(): a call that is not -1.
V6Returns == stage' = "returned" /\ UNCHANGED <<os, text, data, sizes, sp, bx, asked>>

V6Write ==
  /\ V6Calling /\ Systype = 4
  /\ Writing(Fetched2(1), Fetched2(3))
  /\ pc' = pc + 5
  /\ V6Returns

\* The bytes at the address must be a system call themselves, and only write is one
\* that v6indirect knows.
IndirectAt == Fetched2(1)
IsCall == At(data, IndirectAt) = \hcd /\ At(data, IndirectAt + 1) = 7

\* Mutant of V6Indirect: the second word is taken one byte after the first.
V6IndirectOverlapping ==
  /\ V6Calling /\ Systype = 0 /\ IsCall
  /\ LET at(k) == (IndirectAt + k) % 65536
     IN  IF At(data, at(2)) = 4 THEN Writing(WordAt(data, at(3)), WordAt(data, at(4)))
         ELSE NotWriting
  /\ pc' = pc + 3
  /\ V6Returns

\* addr is a uint16 that is counted up.
V6Indirect ==
  /\ V6Calling /\ Systype = 0 /\ IsCall
  /\ LET at(k) == (IndirectAt + k) % 65536
     IN  IF At(data, at(2)) = 4 THEN Writing(WordAt(data, at(3)), WordAt(data, at(5)))
         ELSE NotWriting
  /\ pc' = pc + 3
  /\ V6Returns

\* exit, and an indirect call of something else.
V6Exit ==
  /\ V6Calling /\ (Systype = 1 \/ (Systype = 0 /\ ~IsCall))
  /\ pc' = pc + (IF Systype = 1 THEN 1 ELSE 3)
  /\ stage' = "exit" /\ NotWriting
  /\ UNCHANGED <<os, text, data, sizes, sp, bx, asked>>

V6Unknown ==
  /\ V6Calling /\ Systype \notin {0, 1, 4}
  /\ pc' = pc + 1 /\ NotWriting
  /\ V6Returns
V6Call == V6Write \/ V6Indirect \/ V6Exit \/ V6Unknown

Over == stage \in {"returned", "exit", "wild"} /\ UNCHANGED vars

Next == AskExec \/ ExecLoads \/ ExecWild \/ AskV6 \/ V6Call \/ Over
Spec == Init /\ [][Next]_vars
-----------------------------------------------------------------------------
\* Every variable has its type, and a V6 program has one segment; a call at its end
\* may take pc a little further.
TypeOK ==
  /\ os \in {"minix", "v6"} /\ stage \in Stages
  /\ IsMemory(text) /\ IsMemory(data) /\ (os = "v6" => text = data)
  /\ {sp, bx, ax, sizes.data} \subseteq Word /\ sizes.brk \in Values(131071)
  /\ pc \in Values(65544)
  /\ carry \in BOOLEAN

Fresh == stage = "fresh"

\* The word that exec's reply falls on in the new image.
ReplyAt == IF asked.call THEN {bx + 2, bx + 3} ELSE {}
OnArguments == \E a \in ReplyAt : a >= sp

\* What a program's start-up code finds on its stack: argc, argv and the environment.
ArgcAt == WordAt(data, sp)
ArgvAt == [k \in 1 .. ArgcAt |-> CString(data, WordAt(data, sp + 2 * k))]
EnvAt == [k \in 1 .. 2 |-> WordAt(data, sp + 2 * (ArgcAt + k))]

\* A program finds the arguments it was started with, and those of Minix the 0 after
\* them and the first string of the environment, through exec's frame, its relative
\* pointers, and a stack built anew; unless exec's reply has fallen on them.
ArgumentsArrive ==
  Fresh /\ ~OnArguments =>
    /\ ArgvAt = asked.argv
    /\ os = "minix" =>
         /\ EnvAt[1] = 0
         /\ CString(data, EnvAt[2]) = (IF asked.call THEN asked.env[1] ELSE asked.env)
         /\ WordAt(data, sp + 2 * (ArgcAt + 3)) = 0

\* The stack a program starts on is made of words, whatever the lengths of the strings.
StackAligned == Fresh => sp % 2 = 0

\* The path as a program means it: a root of its own, but for /tmp and /usr/tmp.
Named(p) ==
  IF p[1] = Dots THEN p
  ELSE IF p[1] = Tmp THEN p
  ELSE IF Len(p) > 1 /\ p[1] = Usr /\ p[2] = Tmp THEN SubSeq(p, 2, Len(p))
  ELSE RootPath \o p
TmpInFrontOnly(p) ==
  \A k \in DOMAIN p : p[k] = Tmp => k = 1 \/ (k = 2 /\ p[1] = Usr)
AskedFile == FileAt(IF asked.call THEN Named(asked.path) ELSE asked.path)

\* The program that runs is the one that was named, for a path that has /tmp or
\* /usr/tmp nowhere but in front, and below its arguments memory is that of its file:
\* nothing is left there of the program that asked, and no string strays.
ImageIntact ==
  Fresh /\ TmpInFrontOnly(asked.path) =>
    /\ os = "minix" => text = AskedFile.text
    /\ os = "minix" =>
         \A a \in DOMAIN data \cup DOMAIN AskedFile.data :
           a < sp /\ a \notin ReplyAt => At(data, a) = At(AskedFile.data, a)
    /\ os = "v6" =>
         /\ \A a \in DOMAIN AskedFile.text : a < sp => text[a] = AskedFile.text[a]
         /\ \A a \in DOMAIN AskedFile.data :
              AskedFile.tsize + a < sp => At(text, AskedFile.tsize + a) = AskedFile.data[a]

\* A call whose number is at a as its listing shows it, and the one that is made: that
\* in the code, or that at the address which an indirect one gives.
CallAt(a) ==
  LET n == At(text, a)
  IN  [number |-> n, words |-> [k \in 1 .. Listing!V6Words(n) |-> WordAt(text, a + 2 * k - 1)]]
CallMade == IF Systype = 0 /\ IsCall THEN CallAt(IndirectAt + 2) ELSE CallAt(pc)

\* What the host has been given after a call.
Written(call) ==
  IF call.number # 4 THEN output
  ELSE [fd |-> ax, bytes |-> [k \in 1 .. call.words[2] |-> At(data, call.words[1] + k - 1)]]

\* A system call of Unix V6 takes from the code the words that the listing shows after
\* it, and writes what the listing says: the descriptor in AX, from the address in the
\* first word as many bytes as the second says, those of the call listed at its address
\* if it is indirect, and nothing for any other call.  An indirect call that reaches
\* over the end of memory is not asked about.
V6CallsAsListed ==
  [][V6Call =>
       /\ pc' = pc + 1 + 2 * Listing!V6Words(Systype)
       /\ (Systype = 0 => IndirectAt + 6 \in Word) => output' = Written(CallMade)]_vars
=============================================================================
