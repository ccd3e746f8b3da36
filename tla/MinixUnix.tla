----------------------------- MODULE MinixUnix ------------------------------
(***************************************************************************)
(* MinixProc under programs that deal with one child at a time, read as    *)
(* UnixProc: that a child runs only inside its parent's wait is one of the *)
(* orders UnixProc allows, and cannot be told by the processes.  UnixProc  *)
(* leaves open what status word a code comes out as; here it is ret << ret *)
(* for every code, and not the ret << 8 of wait(2).                        *)
(***************************************************************************)
EXTENDS MinixProc

ParentOf(c) == {p \in Runtimes : child[p] = c /\ phase[c] # "deleted"}

\* A process is alive from fork on, whether its runtime has been entered or not; the
\* first one ends with the interpreter.
LifeIn(ph, over) ==
  CASE ph = "unborn" -> "unborn"
    [] ph = "returned" \/ over -> "zombie"
    [] ph = "deleted" -> "gone"
    [] OTHER -> "alive"
Life == [p \in Runtimes |-> LifeIn(phase[p], p = 1 /\ ended = "exit")]
OneOf(S) == IF S = {} THEN 0 ELSE CHOOSE p \in S : TRUE
Parent == [c \in Runtimes |-> OneOf(ParentOf(c))]

Unix == INSTANCE UnixProc WITH
  Procs <- Runtimes,
  Memories <- [Cells -> Words],
  Pid <- NewPid,
  Status <- Shifted,
  life <- Life,
  parent <- Parent,
  memory <- data,
  reply <- m_type

\* Seen as processes that run at the same time, what they do is what fork(2), wait(2)
\* and _exit(2) promise: copies of memory, pids, each child reaped once by its own
\* parent, with the status that its own exit comes out as.
ImplementsUnix == Unix!Spec
=============================================================================
