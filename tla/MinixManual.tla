---------------------------- MODULE MinixManual -----------------------------
(***************************************************************************)
(* Statements of the Minix manual pages kept in the repository (section 2) *)
(* about the system calls that MinixProc models, which the interpreter     *)
(* does not keep.  MCMinixProc's programs refute each.                     *)
(***************************************************************************)
EXTENDS MCMinixProc

\* wait(2), ECHILD: also when every child has been waited for already.
WaitFailsAgain == ended # "wild"

\* wait(2): "the high byte of status contains the low byte of the argument to exit".
StatusTellsCode ==
  [][WaitReturns => status'[Top] = 256 * (code[child[Top]] % 256)]_vars

\* wait(2): "delay until .. one of its child processes terminates": a child that has
\* not run yet is one whose parent's wait will run it, however many children that has.
ChildrenAreWaitedFor ==
  \A c \in Runtimes : phase[c] = "ready" => \E p \in Runtimes : child[p] = c
=============================================================================
