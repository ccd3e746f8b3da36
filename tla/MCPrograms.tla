----------------------------- MODULE MCPrograms -----------------------------
(***************************************************************************)
(* Building blocks of the bounded programs the MC modules run: machine     *)
(* code as sequences of bytes, and loads made of a program and its data.   *)
(* A program ends where its code does: the 0 bytes that follow encode      *)
(* add [bx+si],al, which the interpreter refuses.                          *)
(***************************************************************************)
EXTENDS Integers, Sequences

\* Bytes placed from address a on.
Placed(bytes, a) == [b \in a .. a + Len(bytes) - 1 |-> bytes[b - a + 1]]

Load(code, cells, sp) == [text |-> Placed(code, 0), data |-> cells, sp |-> sp]

NoCells == [a \in {} |-> 0]

\* An opcode followed by a word.
WithImm(op, v) == <<op, v % 256, v \div 256>>
MovAX(v) == WithImm(\hb8, v)
MovCX(v) == WithImm(\hb9, v)
MovBX(v) == WithImm(\hbb, v)
MovSP(v) == WithImm(\hbc, v)
MovSI(v) == WithImm(\hbe, v)
MovDI(v) == WithImm(\hbf, v)
=============================================================================
