---------------------------- MODULE MCX86Disassm ----------------------------
(***************************************************************************)
(* Texts of up to three pieces: prefixes, instructions with and without a  *)
(* line, system calls of Unix V6, and instructions the end of the text     *)
(* cuts short, with names for some of the addresses.  Each piece may come  *)
(* before, after and inside the others.                                    *)
(***************************************************************************)
EXTENDS X86Disassm

Pieces == {
  <<\hf3>>, <<\h26>>,              \* rep, es:
  <<\h90>>, <<\h60>>,              \* nop, undefined
  <<\h00>>,                        \* add, whose ModR/M byte comes next or is missing
  <<\h89, \h46, \hfe>>,            \* mov [bp-2],ax
  <<\h81, \h06, 64, 0, 1, 2>>,     \* add [0040],0201
  <<\h81, \hd1, 5, 0>>,            \* adc cx,5: no line
  <<\hfe, \h38>>,                  \* fe with ext 7: no line
  <<\hf6, \h07, 9>>,               \* test byte [bx],9
  <<\hea, 1, 0, 2, 0>>,            \* jmpf
  <<\hcd, 7, 0, 16, 0>>,           \* sys indir
  <<\hcd, 7, 1>>,                  \* sys exit
  <<\hcd, 7, 4, 32, 0, 3, 0>>,     \* sys write
  <<\hcd, 7, 9>>,                  \* a system call it does not know
  <<\hcd, 7>>, <<\hcd>>}           \* and one cut short

\* What may come first.
Starts == {<<>>, <<\hf3>>, <<\h90>>, <<\h81, \hd1, 5, 0>>}

Texts == {a \o b \o c : a \in Starts, b \in Pieces, c \in Pieces}

NoNames == [symbols |-> <<>>, symsize |-> 0]
Names == {NoNames,
          [symbols |-> <<2, NoName, 0, 2>>, symsize |-> 48],
          [symbols |-> <<7>>, symsize |-> 13]}

\* A file whose symbol table reaches to the last multiple of 12 and past it: with
\* 65533 bytes of it the loop of setSymbol has no end.
Huge == {[text |-> <<\h90>>, symbols |-> <<0>>, symsize |-> n] : n \in {65532, 65533}}

MCBinaries ==
  {[text |-> t, symbols |-> n.symbols, symsize |-> n.symsize] : t \in Texts, n \in Names}
  \cup Huge
MCHeaps == {<<7, 4, 1, 0, 2, 0, \hf3>>, <<4, 9, 7, 0, 0, 0, 0>>}
=============================================================================
