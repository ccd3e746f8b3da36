----------------------------- MODULE X86Manual ------------------------------
(***************************************************************************)
(* What the assembler's manual page as(9) says of the repeat prefix and    *)
(* the program does not keep.  MCX86Manual refutes it.                     *)
(***************************************************************************)
EXTENDS X86Runtime

\* "rep ! Repeat next instruction": the next one, not one behind a system call, even
\* when no trace is asked for and so nothing flushes the options after an int.
RepeatsNext ==
  [][StringStart /\ option.active => At(text, pc - 1) \in {\hf2, \hf3}]_vars
=============================================================================
