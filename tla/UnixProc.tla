------------------------------ MODULE UnixProc ------------------------------
(***************************************************************************)
(* What fork(2), wait(2) and _exit(2) of the Minix manual pages promise    *)
(* the processes of one program: a child is a copy of its parent with      *)
(* memory of its own, runs when it likes, and hands its parent, once, its  *)
(* process id and the status of its exit.                                  *)
(***************************************************************************)
EXTENDS Integers

CONSTANTS
  Procs,        \* identities, in the order of creation; the first one is 1
  Memories,     \* contents of a process's memory
  Codes,        \* arguments of exit
  Pid(_),       \* the process id of an identity
  Status(_)     \* the status word an exit code comes out as

VARIABLES
  life,         \* unborn, alive, zombie (ended, not waited for) or gone
  parent,       \* who forked it, until it has been waited for; 0 for the first
  memory,       \* its memory
  code,         \* its exit code
  reply,        \* what its last call returned
  status        \* the status word its last wait stored

vars == <<life, parent, memory, code, reply, status>>

Init ==
  /\ life = [p \in Procs |-> IF p = 1 THEN "alive" ELSE "unborn"]
  /\ parent = [p \in Procs |-> 0]
  /\ memory \in [Procs -> Memories]
  /\ code = [p \in Procs |-> 0]
  /\ reply = [p \in Procs |-> 0]
  /\ status = [p \in Procs |-> 0]

\* The child is a copy of its parent but for the answer.
Fork(p, c) ==
  /\ life[p] = "alive" /\ life[c] = "unborn"
  /\ life' = [life EXCEPT ![c] = "alive"]
  /\ parent' = [parent EXCEPT ![c] = p]
  /\ memory' = [memory EXCEPT ![c] = memory[p]]
  /\ reply' = [reply EXCEPT ![p] = Pid(c), ![c] = 0]
  /\ status' = [status EXCEPT ![c] = status[p]]
  /\ UNCHANGED code

\* Whatever a process does by itself, other calls among it: it changes no memory
\* but its own, and tells nobody else anything.
Compute(p) ==
  /\ life[p] = "alive"
  /\ memory' \in [Procs -> Memories]
  /\ \A q \in Procs \ {p} : memory'[q] = memory[q]
  /\ reply' = [reply EXCEPT ![p] = reply'[p]]
  /\ UNCHANGED <<life, parent, code, status>>

Exit(p) ==
  /\ life[p] = "alive"
  /\ life' = [life EXCEPT ![p] = "zombie"]
  /\ \E k \in Codes : code' = [code EXCEPT ![p] = k]
  /\ UNCHANGED <<parent, memory, reply, status>>

\* The status is that of the child's exit, not of another's.
Reap(p, c) ==
  /\ life[p] = "alive" /\ life[c] = "zombie" /\ parent[c] = p
  /\ life' = [life EXCEPT ![c] = "gone"]
  /\ parent' = [parent EXCEPT ![c] = 0]
  /\ reply' = [reply EXCEPT ![p] = Pid(c)]
  /\ status' = [status EXCEPT ![p] = Status(code[c])]
  /\ UNCHANGED <<memory, code>>

Next ==
  \E p \in Procs :
    \/ Compute(p) \/ Exit(p)
    \/ \E c \in Procs : Fork(p, c) \/ Reap(p, c)

Spec == Init /\ [][Next]_vars
=============================================================================
