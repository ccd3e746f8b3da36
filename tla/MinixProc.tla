----------------------------- MODULE MinixProc ------------------------------
(***************************************************************************)
(* Processes of the interpreter: Minix::execSysCall and X86Minix.  A       *)
(* process is an X86Runtime with its X86Minix.  fork only builds the       *)
(* child's runtime; the child runs inside its parent's wait, which calls   *)
(* run() and goes on when that returns.  So `frames', the nested calls of  *)
(* run(), is a stack, and only the process on its top acts.                *)
(*                                                                         *)
(* The programs are not fixed: between its system calls a process changes  *)
(* its memory as it likes, and it makes any call with any argument.        *)
(* Open descriptors belong to the host process, so all of them share one   *)
(* table.  Of a process's memory the model keeps the words at Cells.       *)
(***************************************************************************)
EXTENDS Integers, Sequences

CONSTANTS
  MaxRuntimes,  \* how many runtimes are created (a bound, under which pids fit m_type)
  Cells,        \* addresses of words; 0 is one of them
  Words,        \* their values, and those of signal handlers: 0 is SIG_DFL, 1 SIG_IGN
  Codes,        \* arguments of exit
  Garbage,      \* what the uninitialised local status of wait may hold
  Breaks,       \* arguments of brk
  StackPointers, \* values of SP when brk is called
  Images,       \* executables: [data |-> memory, datasize, bsssize]
  Descriptors,  \* descriptors the programs use
  Lengths,      \* how many bytes they ask read and write for
  Callers       \* runtimes that make calls other than those of processes (a bound)

\* The largest uint16.
MaxWord == 65535

ASSUME BoundAssumption == MaxRuntimes \in Nat \ {0} /\ 12240 + MaxRuntimes <= MaxWord
ASSUME MemoryAssumption ==
  0 \in Cells /\ Words \subseteq 0 .. MaxWord /\ 0 \in Words
ASSUME ImagesAssumption ==
  \A i \in Images : i.data \in [Cells -> Words] /\ i.datasize \in Nat /\ i.bsssize \in Nat
ASSUME CallsAssumption ==
  Descriptors \cup Lengths \cup StackPointers \cup Breaks \subseteq 0 .. MaxWord

Runtimes == 1 .. MaxRuntimes
None == 0

\* Signal numbers: sigconv knows some of them only.
SIGINT == 2
SIGTERM == 15
Known == {SIGINT}
Signals == {SIGINT, SIGTERM}

\* Error numbers, and how a negative one looks in the uint16 m_type.
ENOENT == 2
EBADF == 9
ENOMEM == 12
EINVAL == 22
\* Mutant of Negative: the reply is kept in an int.
NegativeInt(n) == -n

Negative(n) == 65536 - n

VARIABLES
  pid_max,   \* the static counter of createPid
  pid,       \* OS::pid
  child,     \* X86Minix::childRuntime
  phase,     \* where a runtime is in its life
  frames,    \* nested calls of run(), the innermost last
  data,      \* data memory
  sigary,    \* handlers
  sizes,     \* datasize and brksize
  m_type,    \* reply to the last system call
  status,    \* status word stored by the last wait
  code,      \* result of run()
  open,      \* descriptors open in the host process
  written,   \* those through which something has been written
  errno,     \* errno of the host process
  ended      \* no, or how the whole interpreter ended

vars == <<pid_max, pid, child, phase, frames, data, sigary, sizes, m_type, status, code, open,
          written, errno, ended>>

memoryVars == <<data, sigary, sizes>>
processVars == <<pid_max, pid, child, phase, frames, status, code>>
fileVars == <<open, written>>
hostVars == <<fileVars, errno>>

\* ready: built by fork, never run; waiting: inside run() of its child; returned:
\* its run() has returned; deleted: its memory is freed.
Phases == {"unborn", "ready", "running", "waiting", "returned", "deleted"}

Handlers == [Known -> Words]

Top == frames[Len(frames)]
Calling == ended = "no" /\ phase[Top] = "running"

\* Mutant of NewPid: the counter starts over too soon.
PidStartsOver(c) == 12240 + (c % 2)

\* createPid: pid of the runtime created c-th.
NewPid(c) == 12240 + c

Reply(v) == m_type' = [m_type EXCEPT ![Top] = v]

\* Mutant of LoadedSizes: the break is set by the bss alone.
LoadedBreakLow(i) == [data |-> i.datasize, brk |-> i.bsssize]

LoadedSizes(i) == [data |-> i.datasize, brk |-> i.datasize + i.bsssize]
-----------------------------------------------------------------------------
\* The first runtime has been loaded; its sigary is uninitialised.
Init ==
  /\ pid_max = 1
  /\ pid = [p \in Runtimes |-> IF p = 1 THEN NewPid(1) ELSE 0]
  /\ child = [p \in Runtimes |-> None]
  /\ phase = [p \in Runtimes |-> IF p = 1 THEN "running" ELSE "unborn"]
  /\ frames = <<1>>
  /\ \E i \in Images :
       /\ data = [p \in Runtimes |-> i.data]
       /\ sizes = [p \in Runtimes |-> LoadedSizes(i)]
  /\ \E h \in Handlers : sigary = [p \in Runtimes |-> h]
  /\ m_type = [p \in Runtimes |-> 0]
  /\ status = [p \in Runtimes |-> 0]
  /\ code = [p \in Runtimes |-> 0]
  /\ open \in SUBSET Descriptors
  /\ written = {} /\ errno = 0
  /\ ended = "no"

\* Instructions between two system calls.
Compute ==
  /\ Calling
  /\ \E a \in Cells, v \in Words : data' = [data EXCEPT ![Top][a] = v]
  /\ UNCHANGED <<processVars, sigary, sizes, m_type, hostVars, ended>>

\* fork: a child built before is forgotten.  The new OS object has a sigary of its
\* own that nothing fills in.
Fork ==
  /\ Calling /\ pid_max < MaxRuntimes
  /\ LET c == pid_max + 1
     IN  /\ pid_max' = c
         /\ pid' = [pid EXCEPT ![c] = NewPid(c)]
         /\ child' = [child EXCEPT ![Top] = c]
         /\ phase' = [phase EXCEPT ![c] = "ready"]
         /\ data' = [data EXCEPT ![c] = data[Top]]
         /\ sizes' = [sizes EXCEPT ![c] = sizes[Top]]
         /\ \E h \in Handlers : sigary' = [sigary EXCEPT ![c] = h]
         /\ m_type' = [m_type EXCEPT ![Top] = NewPid(c), ![c] = 0]
         /\ status' = [status EXCEPT ![c] = status[Top]]
  /\ UNCHANGED <<frames, code, hostVars, ended>>

\* Mutant of WaitRuns: the waiting process stays in the state it is in.
WaitRunsBoth ==
  /\ Calling /\ child[Top] # None /\ phase[child[Top]] = "ready"
  /\ pid' = [pid EXCEPT ![Top] = pid[child[Top]]]
  /\ phase' = [phase EXCEPT ![child[Top]] = "running"]
  /\ frames' = Append(frames, child[Top])
  /\ UNCHANGED <<pid_max, child, status, code, memoryVars, m_type, hostVars, ended>>

\* wait with a child built and not yet run: pid is overwritten, run() is entered.
WaitRuns ==
  /\ Calling /\ child[Top] # None /\ phase[child[Top]] = "ready"
  /\ pid' = [pid EXCEPT ![Top] = pid[child[Top]]]
  /\ phase' = [phase EXCEPT ![Top] = "waiting", ![child[Top]] = "running"]
  /\ frames' = Append(frames, child[Top])
  /\ UNCHANGED <<pid_max, child, status, code, memoryVars, m_type, hostVars, ended>>

\* ret << ret, as the shift instruction of the host does it: by ret mod 32.
Shifted(ret) == IF ret % 32 < 16 THEN (ret * 2^(ret % 32)) % 65536 ELSE 0

\* Mutant of WaitReturns: the child's runtime is not deleted.
WaitReturnsKeeping ==
  /\ ended = "no" /\ phase[Top] = "waiting"
  /\ phase' = [phase EXCEPT ![Top] = "running"]
  /\ status' = [status EXCEPT ![Top] = Shifted(code[child[Top]])]
  /\ Reply(pid[Top])
  /\ UNCHANGED <<pid_max, pid, child, frames, code, memoryVars, hostVars, ended>>

\* Mutant of WaitReturns: the pid is read from the child once it has run.
WaitReturnsLate ==
  /\ ended = "no" /\ phase[Top] = "waiting"
  /\ phase' = [phase EXCEPT ![Top] = "running", ![child[Top]] = "deleted"]
  /\ status' = [status EXCEPT ![Top] = Shifted(code[child[Top]])]
  /\ Reply(pid[child[Top]])
  /\ UNCHANGED <<pid_max, pid, child, frames, code, memoryVars, hostVars, ended>>

\* The rest of that wait, once run() has returned; childRuntime keeps its value.
WaitReturns ==
  /\ ended = "no" /\ phase[Top] = "waiting"
  /\ phase' = [phase EXCEPT ![Top] = "running", ![child[Top]] = "deleted"]
  /\ status' = [status EXCEPT ![Top] = Shifted(code[child[Top]])]
  /\ Reply(pid[Top])
  /\ UNCHANGED <<pid_max, pid, child, frames, code, memoryVars, hostVars, ended>>

\* wait without a child.
WaitChildless ==
  /\ Calling /\ child[Top] = None
  /\ pid' = [pid EXCEPT ![Top] = 0]
  /\ \E g \in Garbage : status' = [status EXCEPT ![Top] = g]
  /\ Reply(0)
  /\ UNCHANGED <<pid_max, child, phase, frames, code, memoryVars, hostVars, ended>>

\* wait again after the child's runtime was deleted: the freed object is used and
\* deleted a second time, after which anything may happen.
WaitDangling ==
  /\ Calling /\ child[Top] # None /\ phase[child[Top]] = "deleted"
  /\ ended' = "wild"
  /\ UNCHANGED <<processVars, memoryVars, m_type, hostVars>>

\* exit: the first process takes the interpreter with it, a child's run() returns.
Exit ==
  /\ Calling
  /\ \E k \in Codes : code' = [code EXCEPT ![Top] = k]
  /\ IF Len(frames) = 1
     THEN ended' = "exit" /\ UNCHANGED <<phase, frames>>
     ELSE /\ phase' = [phase EXCEPT ![Top] = "returned"]
          /\ frames' = SubSeq(frames, 1, Len(frames) - 1)
          /\ UNCHANGED ended
  /\ UNCHANGED <<pid_max, pid, child, status, memoryVars, m_type, hostVars>>

\* exec: the image replaces memory, the handlers are cleared; child and pid stay.
Exec ==
  /\ Calling
  /\ \E i \in Images :
       /\ data' = [data EXCEPT ![Top] = i.data]
       /\ sizes' = [sizes EXCEPT ![Top] = LoadedSizes(i)]
  /\ sigary' = [sigary EXCEPT ![Top] = [s \in Known |-> 0]]
  /\ Reply(0)
  /\ UNCHANGED <<processVars, hostVars, ended>>

Getpid ==
  /\ Calling
  /\ Reply(pid[Top])
  /\ UNCHANGED <<processVars, memoryVars, hostVars, ended>>
-----------------------------------------------------------------------------
\* The calls from here on: only runtimes of Callers make them.
Asking == Calling /\ Top \in Callers

\* minix*() has set errno and given -1 back.
Fail(e) == Reply(Negative(e)) /\ errno' = e

\* Mutant of BrkTo: the break is moved before it is looked at.
BrkToFirst(a, sp) ==
  /\ sizes' = [sizes EXCEPT ![Top].brk = a]
  /\ IF a < sizes[Top].data \/ a >= 1024 * (sp \div 1024) - 1024 THEN Fail(ENOMEM)
     ELSE Reply(0) /\ UNCHANGED errno

\* brk: refused below the data and within a page of the stack; bss is not looked at.
BrkTo(a, sp) ==
  IF a < sizes[Top].data \/ a >= 1024 * (sp \div 1024) - 1024
  THEN Fail(ENOMEM) /\ UNCHANGED sizes
  ELSE Reply(0) /\ sizes' = [sizes EXCEPT ![Top].brk = a] /\ UNCHANGED errno
Brk ==
  /\ Asking
  /\ \E a \in Breaks, sp \in StackPointers : BrkTo(a, sp)
  /\ UNCHANGED <<processVars, data, sigary, fileVars, ended>>

Signal ==
  /\ Asking
  /\ \E s \in Signals, h \in Words :
       IF s \in Known
       THEN Reply(sigary[Top][s]) /\ sigary' = [sigary EXCEPT ![Top][s] = h] /\ UNCHANGED errno
       ELSE Fail(EINVAL) /\ UNCHANGED sigary
  /\ UNCHANGED <<processVars, data, sizes, fileVars, ended>>

\* The old handler is stored at oact unless that is 0, and only then is the new one
\* read from act, whatever act is.
SigactionOf(s, act, oact) ==
  /\ Asking
  /\ IF s \in Known
     THEN LET stored == IF oact = 0 THEN data[Top]
                        ELSE [data[Top] EXCEPT ![oact] = sigary[Top][s]]
          IN  /\ data' = [data EXCEPT ![Top] = stored]
              /\ sigary' = [sigary EXCEPT ![Top][s] = stored[act]]
              /\ Reply(0) /\ UNCHANGED errno
     ELSE Fail(EINVAL) /\ UNCHANGED <<data, sigary>>
  /\ UNCHANGED <<processVars, sizes, fileVars, ended>>
Sigaction == \E s \in Signals, act \in Cells, oact \in Cells : SigactionOf(s, act, oact)
-----------------------------------------------------------------------------
\* Files are the host's.  Only what the calls need of them is kept here.
FileCall == Asking /\ UNCHANGED <<processVars, sigary, sizes, ended>>

\* The host gives a descriptor that is free.
Opened(d) == d \notin open /\ Reply(d) /\ open' = open \cup {d} /\ UNCHANGED <<written, errno>>

\* open: a failure is replied as -1, not as -errno; creat does it as the others do.
Open ==
  /\ FileCall /\ UNCHANGED data
  /\ \/ \E d \in Descriptors : Opened(d)
     \/ Reply(Negative(1)) /\ errno' = ENOENT /\ UNCHANGED fileVars
Creat ==
  /\ FileCall /\ UNCHANGED data
  /\ (\E d \in Descriptors : Opened(d)) \/ (Fail(ENOENT) /\ UNCHANGED fileVars)

Close ==
  /\ FileCall /\ UNCHANGED data
  /\ \E d \in Descriptors :
       IF d \in open
       THEN Reply(0) /\ open' = open \ {d} /\ written' = written \ {d} /\ UNCHANGED errno
       ELSE Reply(Negative(1)) /\ errno' = EBADF /\ UNCHANGED fileVars

\* Mutant of Read: the buffer is cleared before the descriptor is looked at.
ReadClearing ==
  /\ FileCall /\ UNCHANGED fileVars
  /\ \E d \in Descriptors, n \in Lengths, a \in Cells, v \in Words :
       IF d \in open
       THEN Reply(n) /\ data' = [data EXCEPT ![Top][a] = v] /\ UNCHANGED errno
       ELSE Fail(EBADF) /\ data' = [data EXCEPT ![Top][a] = 0]

\* read: into the process's memory, as many bytes as there are.
Read ==
  /\ FileCall /\ UNCHANGED fileVars
  /\ \E d \in Descriptors :
       IF d \in open
       THEN /\ \/ \E n \in Lengths, a \in Cells, v \in Words :
                    Reply(n) /\ data' = [data EXCEPT ![Top][a] = v]
               \/ Reply(0) /\ UNCHANGED data
            /\ UNCHANGED errno
       ELSE Fail(EBADF) /\ UNCHANGED data

\* write: its result is kept in an int16, in which 65535 is -1; the reply is then
\* -errno, whatever call has set that.
WriteOf(d, n) ==
  /\ FileCall /\ UNCHANGED <<data, open>>
  /\ IF d \in open
     THEN /\ Reply(IF n = MaxWord THEN Negative(errno) % 65536 ELSE n)
          /\ written' = written \cup {d} /\ UNCHANGED errno
     ELSE Fail(EBADF) /\ UNCHANGED written
Write == \E d \in Descriptors, n \in Lengths : WriteOf(d, n)

\* lseek: the new offset goes into the message.
Lseek ==
  /\ FileCall /\ UNCHANGED <<data, fileVars>>
  /\ \E d \in Descriptors :
       IF d \in open THEN Reply(0) /\ UNCHANGED errno ELSE Fail(EBADF)

\* unlink, chmod, access; stat stores what it has found.
PathCall ==
  /\ FileCall /\ UNCHANGED <<data, fileVars>>
  /\ (Reply(0) /\ UNCHANGED errno) \/ Fail(ENOENT)
Stat ==
  /\ FileCall /\ UNCHANGED fileVars
  /\ \/ \E a \in Cells, v \in Words : data' = [data EXCEPT ![Top][a] = v] /\ Reply(0) /\ UNCHANGED errno
     \/ Fail(ENOENT) /\ UNCHANGED data

\* ioctl is refused whatever it asks for.
Ioctl ==
  /\ FileCall /\ UNCHANGED <<data, fileVars>>
  /\ Fail(EINVAL)

\* time stores a constant in the message; getuid and getgid give the host's, 0 here.
Ask ==
  /\ FileCall /\ UNCHANGED <<data, hostVars>>
  /\ Reply(0)
Files == Open \/ Creat \/ Close \/ Read \/ Write \/ Lseek \/ PathCall \/ Stat \/ Ioctl \/ Ask
-----------------------------------------------------------------------------
\* An unknown call or opcode in any process ends them all, as SIGFPE does.
Die ==
  /\ Calling
  /\ ended' \in {"exit", "crash"}
  /\ UNCHANGED <<processVars, memoryVars, m_type, hostVars>>

Over == ended # "no" /\ UNCHANGED vars
-----------------------------------------------------------------------------
Process == Fork \/ WaitRuns \/ WaitReturns \/ WaitChildless \/ WaitDangling \/ Exit \/ Exec \/ Getpid
Next ==
  \/ Compute \/ Process
  \/ Brk \/ Signal \/ Sigaction
  \/ Files
  \/ Die \/ Over

Spec == Init /\ [][Next]_vars
-----------------------------------------------------------------------------
\* Programs that have one child at a time, wait for each and end only then: what
\* a shell does that runs one command after the other.
ChildDue == child[Top] # None /\ phase[child[Top]] = "ready"
ForkInTurn == ~ChildDue /\ Fork
ExitInTurn == ~ChildDue /\ Exit
InTurnNext ==
  \/ Compute \/ ForkInTurn \/ WaitRuns \/ WaitReturns \/ ExitInTurn \/ Exec \/ Getpid
  \/ Brk \/ Signal \/ Sigaction \/ Files
  \/ Over

InTurnSpec == Init /\ [][InTurnNext]_vars
-----------------------------------------------------------------------------
\* Every variable has its type.  The calls of run() nest as the children do: each
\* frame but the innermost waits for the next one, which is its child; nobody else
\* is running or waiting, and a wait is under way in the innermost frame only when
\* its child has returned.
TypeOK ==
  /\ pid_max \in Runtimes
  /\ pid \in [Runtimes -> 0 .. MaxWord] /\ errno \in Nat /\ m_type \in [Runtimes -> 0 .. MaxWord]
  /\ child \in [Runtimes -> 0 .. MaxRuntimes]
  /\ data \in [Runtimes -> [Cells -> Words]] /\ sigary \in [Runtimes -> Handlers]
  /\ open \subseteq Descriptors /\ written \subseteq open
  /\ phase \in [Runtimes -> Phases]
  /\ frames \in Seq(Runtimes) /\ frames # <<>>
FramesNest ==
  /\ frames[1] = 1
  /\ \A k \in 1 .. Len(frames) - 1 :
       phase[frames[k]] = "waiting" /\ frames[k + 1] = child[frames[k]]
  /\ phase[Top] = "running" \/ (phase[Top] = "waiting" /\ phase[child[Top]] = "returned")
  /\ \A p \in Runtimes :
       phase[p] \in {"running", "waiting"} => \E k \in 1 .. Len(frames) : frames[k] = p

\* A process that can make a call can make a wait: its child is one that never ran
\* or one already deleted, never one in the middle of its life.
WaitIsDecided ==
  Calling => (child[Top] = None \/ phase[child[Top]] \in {"ready", "deleted"})

\* wait gives back what fork gave, although the child may have waited for children
\* of its own in between, which overwrites the child's pid.
WaitAnswersFork ==
  [][WaitReturns => m_type'[Top] = NewPid(child[Top])]_vars

\* fork never gives out the pid of a process that is still there, although wait
\* leaves the parent with its child's pid.
PidsAreFresh ==
  [][Fork => \A p \in Runtimes :
       phase[p] \in {"ready", "running", "waiting"} => pid[p] # m_type'[Top]]_vars

\* The break never lies below the initialised data of the image being run, whichever
\* of brk, fork and exec came last.
BreakAboveData == \A p \in Runtimes : sizes[p].brk >= sizes[p].data

\* A call that replies an error has changed neither memory nor break, handlers, files
\* or descriptors: each of them checks all it has to before it stores anything.  The
\* reply of an error is -errno, and -1 from open and close.  The one call that does not
\* is a write of 65535 bytes, whose reply is an earlier call's error.
Errors == {Negative(e) : e \in {ENOENT, EBADF, ENOMEM, EINVAL}}
Failing ==
  \/ m_type'[Top] \in Errors /\ (Brk \/ Signal \/ Sigaction \/ Files)
  \/ m_type'[Top] = Negative(1) /\ (Open \/ Close)
FailuresChangeNothing ==
  [][Failing => UNCHANGED <<memoryVars, fileVars>> \/ \E d \in Descriptors : WriteOf(d, MaxWord)]_vars
=============================================================================
