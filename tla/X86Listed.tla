------------------------------ MODULE X86Listed ------------------------------
(***************************************************************************)
(* The processor beside its listing.  X86Runtime and X86Disassm each take  *)
(* the same bytes apart with a switch of their own; the trace of option -m *)
(* prints what X86Dump makes of them while X86Runtime executes them.  Here *)
(* each pass of run() is held against the line the other decoder gives.    *)
(***************************************************************************)
EXTENDS X86Runtime

L == INSTANCE X86Listing

\* The line for the bytes at pc.
Shown == L!Decoded([k \in 0 .. 7 |-> Fetched(k)], addr)

\* A pass that executes what it has fetched; the calls of the operating system,
\* which may do anything, are left aside.
Executes == Ready /\ status' = "running" /\ Op # \hcd

\* The instructions that go where their operand says, and those that may.
ShortJumps == {\h70 + cc : cc \in Conditions} \cup {\he2, \he3}
DirectJumps == {\he8, \he9, \heb}
IndirectJumps == Op \in {\hc2, \hc3} \/ (Op \in {\hfe, \hff} /\ Reg \in {2, 4})

\* The two instructions X86Runtime executes for which X86Disassm has no line:
\* or r/m8,imm8 and adc r/m16,imm16.
Unlisted == (Op = \h80 /\ Reg = 1) \/ (Op = \h81 /\ Reg = 2)

\* Whatever is executed has a line, but for two instructions; the next line is that
\* of the next instruction; and a jump goes where its line says.  The sizes and
\* targets of the two decoders, each with its own handling of the w, s and d bits,
\* of displacements and immediates, never drift apart.
ListingInStep ==
  [][Executes =>
       /\ Shown.kind # "undefined"
       /\ Shown.kind = "silent" <=> Unlisted
       /\ Op \in ShortJumps => pc' \in {pc + Shown.size, Shown.ops[1].n}
       /\ Op \in DirectJumps => pc' = Shown.ops[1].n
       /\ Op \notin ShortJumps \cup DirectJumps /\ ~IndirectJumps => pc' = pc + Shown.size]_vars
-----------------------------------------------------------------------------
\* What a reader takes a printed operand to mean.
PrintedBase(n, r) ==
  CASE n = 2 -> r[BP] + r[SI]
    [] n = 3 -> r[BP] + r[DI]
    [] n = 4 -> r[SI]
    [] n = 5 -> r[DI]
    [] n = 6 -> r[BP]
    [] n = 7 -> r[BX]
    [] OTHER -> 0
Cell(o, r) == (PrintedBase(o.n, r) + o.disp) % 65536

\* The registers and the bytes of data memory an operand is in.
RegistersOf(o) ==
  IF o.kind # "register" THEN {} ELSE IF o.w = 1 THEN {o.n} ELSE {o.n % 4}
BytesIn(o) ==
  IF o.kind # "memory" THEN {} ELSE IF o.w = 1 THEN {Cell(o, reg), Cell(o, reg) + 1} ELSE {Cell(o, reg)}

\* Its value, for the instructions that only copy; r and d are registers and data.
Contents(o, r, d) ==
  CASE o.kind = "number" -> o.n
    [] o.kind = "register" /\ o.w = 1 -> r[o.n]
    [] o.kind = "register" /\ o.w = 0 ->
         IF o.n < 4 THEN LowByte(r[o.n]) ELSE HighByte(r[o.n - 4])
    [] o.kind = "memory" /\ o.w = 1 -> Pair(At(d, Cell(o, r)), At(d, Cell(o, r) + 1))
    [] OTHER -> At(d, Cell(o, r))

\* xchg, whose operands both change.  The processor works the address of the second
\* out again after it has changed the first.
Exchanges == Op \in {\h86, \h87} \cup \h90 .. \h97
ExchangesBase == Op \in {\h86, \h87} /\ Mod # 3 /\ AddressUnder(reg') # Address

Pushes == Op \in \h50 .. \h57 \cup {\he8} \/ (Op \in {\hfe, \hff} /\ Reg \in {2, 6})
Pops == Op \in \h58 .. \h5f \cup {\h8f, \hc2, \hc3}

\* The operands an instruction changes are those printed first, and for xchg second.
Changed == {Shown.ops[k] : k \in {j \in DOMAIN Shown.ops : j = 1 \/ Exchanges}}

\* The registers it changes without naming them.
Implied ==
  (IF Pushes \/ Pops THEN {SP} ELSE {})
  \cup (IF Op \in {\hf6, \hf7} /\ Reg \in {4, 6, 7} THEN {AX} ELSE {})
  \cup (IF Op = \h99 \/ (Op = \hf7 /\ Reg \in {4, 6, 7}) THEN {DX} ELSE {})
  \cup (IF Op = \h98 THEN {AX} ELSE {})
  \cup (IF Op = \he2 THEN {CX} ELSE {})
BelowSP == IF Pushes THEN {(reg[SP] - 1) % 65536, (reg[SP] - 2) % 65536} ELSE {}

\* An instruction changes no register and no byte but those of the operand its line
\* prints first, or that the 8086 changes without a name: what is printed as the
\* destination, whichever way the d bit puts it, is what is written.
ListingNamesChanges ==
  [][Executes /\ ~Unlisted /\ ~ExchangesBase =>
       /\ \A i \in 0 .. 7 :
            reg'[i] # reg[i] => i \in Implied \cup UNION {RegistersOf(o) : o \in Changed}
       /\ \A a \in DOMAIN data' :
            At(data', a) # At(data, a) => a \in BelowSP \cup UNION {BytesIn(o) : o \in Changed}]_vars

Moves == Op \in \h88 .. \h8b \cup \ha0 .. \ha3 \cup \hb0 .. \hbf \cup {\hc6, \hc7}

\* A mov leaves the value of the operand printed second in the operand printed first:
\* the printed registers, displacements with their sign, direct addresses and
\* numbers are those the processor uses.
MovesAsListed ==
  [][Executes /\ Moves =>
       \A from \in {Shown.ops[2]}, to \in {Shown.ops[1]} :
         (IF to.kind = "memory" THEN Contents(to, reg, data') ELSE Contents(to, reg', data'))
           = Contents(from, reg, data) % Width(to.w)]_vars
=============================================================================
