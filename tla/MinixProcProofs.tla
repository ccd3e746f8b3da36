-------------------------- MODULE MinixProcProofs ---------------------------
(***************************************************************************)
(* Proofs about MinixProc for any number of runtimes, any images and any   *)
(* arguments: the calls of run() nest, every wait is decided, wait gives   *)
(* back the pid fork gave, and fork gives out only fresh ones.             *)
(*                                                                         *)
(* The invariant behind them speaks of five variables only, the ones that  *)
(* fork, wait and exit change; every other step leaves them alone.         *)
(*                                                                         *)
(* The last part shows that MinixProc implements UnixProc for programs     *)
(* that deal with one child at a time, however many processes they make:   *)
(* every step is one of UnixProc or none of its steps.  The wait that      *)
(* enters run() is none; the child has been alive since it was forked.     *)
(***************************************************************************)
EXTENDS MinixUnix, SequenceTheorems, TLAPS

treeVars == <<pid_max, pid, child, phase, frames>>

TreeTypes ==
  /\ pid_max \in Runtimes
  /\ pid \in [Runtimes -> Int]
  /\ child \in [Runtimes -> 0 .. MaxRuntimes]
  /\ phase \in [Runtimes -> Phases]
  /\ frames \in Seq(Runtimes) /\ frames # <<>>

\* The runtime on top is the one that acts, and the child it could wait for is in none
\* of the frames.
TopDecided ==
  phase[Top] = "running" =>
    child[Top] = None \/ phase[child[Top]] \in {"ready", "deleted"}

\* Runtimes are created in order, and none has a child before it has run.
Unborn ==
  \A p \in Runtimes :
    /\ p > pid_max => phase[p] = "unborn"
    /\ phase[p] \in {"unborn", "ready"} => child[p] = None

\* A pid is out of date only in a runtime that has waited.
PidsKnown ==
  \A p \in Runtimes :
    /\ pid[p] <= NewPid(pid_max)
    /\ phase[p] = "ready" => pid[p] = NewPid(p)
    /\ phase[p] = "waiting" => child[p] \in Runtimes /\ pid[p] = NewPid(child[p])

Tree == TreeTypes /\ FramesNest /\ TopDecided /\ Unborn /\ PidsKnown

LEMMA TopIsRuntime ==
  ASSUME TreeTypes
  PROVE  /\ Len(frames) \in Nat \ {0} /\ Top \in Runtimes
         /\ \A k \in 1 .. Len(frames) : frames[k] \in Runtimes
<1>1. Len(frames) \in Nat \ {0} BY EmptySeq, LenProperties DEF TreeTypes
<1>2. \A k \in 1 .. Len(frames) : frames[k] \in Runtimes
      BY ElementOfSeq DEF TreeTypes
<1> QED BY <1>1, <1>2 DEF Top

LEMMA TreeInit == Init => Tree
<1> SUFFICES ASSUME Init PROVE Tree OBVIOUS
<1>1. /\ pid_max = 1 /\ frames = <<1>>
      /\ pid = [p \in Runtimes |-> IF p = 1 THEN 12241 ELSE 0]
      /\ child = [p \in Runtimes |-> 0]
      /\ phase = [p \in Runtimes |-> IF p = 1 THEN "running" ELSE "unborn"]
      BY DEF Init, NewPid, None
<1>2. 1 \in Runtimes /\ Runtimes \subseteq Nat /\ 0 \in 0 .. MaxRuntimes
      BY BoundAssumption DEF Runtimes
<1>3. Len(frames) = 1 /\ frames[1] = 1 /\ Top = 1 /\ frames \in Seq(Runtimes) /\ frames # <<>>
      BY <1>1, <1>2 DEF Top
<1>4. TreeTypes
  <2>1. pid \in [Runtimes -> Int] BY <1>1
  <2>2. child \in [Runtimes -> 0 .. MaxRuntimes] BY <1>1, <1>2
  <2>3. phase \in [Runtimes -> Phases] BY <1>1 DEF Phases
  <2> QED BY <1>1, <1>2, <1>3, <2>1, <2>2, <2>3 DEF TreeTypes
<1>5. FramesNest
  <2>1. phase[Top] = "running" BY <1>1, <1>2, <1>3
  <2>2. ASSUME NEW p \in Runtimes, phase[p] \in {"running", "waiting"}
        PROVE  \E k \in 1 .. Len(frames) : frames[k] = p
    <3>1. p = 1 BY <2>2, <1>1
    <3> QED BY <3>1, <1>3
  <2> QED BY <1>3, <2>1, <2>2 DEF FramesNest
<1>6. TopDecided BY <1>1, <1>2, <1>3 DEF TopDecided, None
<1>7. Unborn
  <2>1. ASSUME NEW p \in Runtimes, p > pid_max PROVE phase[p] = "unborn" BY <2>1, <1>1, <1>2
  <2>2. ASSUME NEW p \in Runtimes PROVE child[p] = None BY <1>1 DEF None
  <2> QED BY <2>1, <2>2 DEF Unborn
<1>8. PidsKnown
  <2>1. ASSUME NEW p \in Runtimes PROVE pid[p] <= NewPid(pid_max) BY <1>1 DEF NewPid
  <2>2. ASSUME NEW p \in Runtimes PROVE phase[p] # "ready" /\ phase[p] # "waiting" BY <1>1
  <2> QED BY <2>1, <2>2 DEF PidsKnown
<1> QED BY <1>4, <1>5, <1>6, <1>7, <1>8 DEF Tree

LEMMA TreeQuiet == Tree /\ UNCHANGED treeVars => Tree'
BY DEF Tree, treeVars, TreeTypes, FramesNest, TopDecided, Unborn, PidsKnown, Top

\* fork: the new runtime is not yet in any frame.
LEMMA TreeFork == Tree /\ Fork => Tree'
<1> SUFFICES ASSUME Tree, Fork PROVE Tree' OBVIOUS
<1>0. TreeTypes /\ FramesNest /\ TopDecided /\ Unborn /\ PidsKnown BY DEF Tree
<1>a. phase[Top] = "running" /\ pid_max < MaxRuntimes BY DEF Fork, Calling
<1>b. PICK c : c = pid_max + 1 OBVIOUS
<1>1. /\ Len(frames) \in Nat \ {0} /\ Top \in Runtimes
      /\ \A k \in 1 .. Len(frames) : frames[k] \in Runtimes
      BY <1>0, TopIsRuntime
<1>2. /\ pid_max' = c /\ frames' = frames
      /\ pid' = [pid EXCEPT ![c] = NewPid(c)]
      /\ child' = [child EXCEPT ![Top] = c]
      /\ phase' = [phase EXCEPT ![c] = "ready"]
      BY <1>b DEF Fork
<1>3. /\ pid_max \in Nat /\ pid_max >= 1 /\ c \in Runtimes /\ c \in Int /\ c > pid_max
      /\ c \in 0 .. MaxRuntimes
      BY <1>0, <1>a, <1>b, BoundAssumption DEF TreeTypes, Runtimes
<1>4. phase[c] = "unborn" /\ child[c] = None /\ c # Top
      BY <1>0, <1>a, <1>3 DEF Unborn
<1>5. /\ DOMAIN phase = Runtimes /\ DOMAIN child = Runtimes /\ DOMAIN pid = Runtimes
      /\ \A p \in Runtimes : p \in Int /\ pid[p] \in Int /\ child[p] \in 0 .. MaxRuntimes
      BY <1>0 DEF TreeTypes, Runtimes
<1>6. /\ phase'[c] = "ready" /\ \A p \in Runtimes \ {c} : phase'[p] = phase[p]
      /\ pid'[c] = NewPid(c) /\ \A p \in Runtimes \ {c} : pid'[p] = pid[p]
      /\ child'[Top] = c /\ \A p \in Runtimes \ {Top} : child'[p] = child[p]
      BY <1>1, <1>2, <1>3, <1>5
<1>7. Top' = Top BY <1>2 DEF Top
<1>8. TreeTypes'
  <2>1. NewPid(c) \in Int BY <1>3 DEF NewPid
  <2>2. pid' \in [Runtimes -> Int] BY <2>1, <1>0, <1>2, <1>3 DEF TreeTypes
  <2>3. child' \in [Runtimes -> 0 .. MaxRuntimes] BY <1>0, <1>1, <1>2, <1>3 DEF TreeTypes
  <2>4. phase' \in [Runtimes -> Phases] BY <1>0, <1>2, <1>3 DEF TreeTypes, Phases
  <2> QED BY <2>2, <2>3, <2>4, <1>0, <1>2, <1>3 DEF TreeTypes
<1>9. FramesNest'
  <2>1. ASSUME NEW k \in 1 .. Len(frames) - 1
        PROVE  /\ k \in 1 .. Len(frames) /\ phase[frames[k]] = "waiting"
               /\ frames[k + 1] = child[frames[k]]
        BY <1>0, <1>1 DEF FramesNest
  <2>2. ASSUME NEW k \in 1 .. Len(frames) - 1
        PROVE  phase'[frames[k]] = "waiting" /\ frames[k + 1] = child'[frames[k]]
    <3>1. frames[k] \in Runtimes /\ frames[k] # c /\ frames[k] # Top
          BY <2>1, <1>1, <1>4, <1>a
    <3> QED BY <3>1, <2>1, <1>6
  <2>3. phase'[Top] = "running" BY <1>a, <1>1, <1>4, <1>6
  <2>4. ASSUME NEW p \in Runtimes, phase'[p] \in {"running", "waiting"}
        PROVE  \E k \in 1 .. Len(frames) : frames[k] = p
    <3>1. p # c /\ phase'[p] = phase[p] BY <2>4, <1>6
    <3> QED BY <3>1, <2>4, <1>0 DEF FramesNest
  <2>5. frames'[1] = 1 BY <1>0, <1>2 DEF FramesNest
  <2> QED BY <1>2, <1>7, <2>2, <2>3, <2>4, <2>5 DEF FramesNest
<1>10. TopDecided' BY <1>6, <1>7 DEF TopDecided
<1>11. Unborn'
  <2>1. ASSUME NEW p \in Runtimes, p > c PROVE phase'[p] = "unborn"
    <3>1. p # c /\ p > pid_max BY <2>1, <1>3, <1>5
    <3> QED BY <3>1, <1>0, <1>6 DEF Unborn
  <2>2. ASSUME NEW p \in Runtimes, phase'[p] \in {"unborn", "ready"} PROVE child'[p] = None
    <3>1. p # Top BY <2>2, <1>a, <1>1, <1>4, <1>6
    <3>2. CASE p = c BY <3>1, <3>2, <1>4, <1>6
    <3>3. CASE p # c BY <3>1, <3>3, <2>2, <1>0, <1>6 DEF Unborn
    <3> QED BY <3>2, <3>3
  <2> QED BY <1>2, <2>1, <2>2 DEF Unborn
<1>12. PidsKnown'
  <2>1. NewPid(pid_max) < NewPid(c) /\ NewPid(c) \in Int /\ NewPid(pid_max) \in Int
        BY <1>3 DEF NewPid
  <2>2. ASSUME NEW p \in Runtimes PROVE pid'[p] <= NewPid(c)
    <3>1. CASE p = c BY <3>1, <1>6, <2>1
    <3>2. CASE p # c
      <4>1. pid'[p] = pid[p] /\ pid[p] \in Int /\ pid[p] <= NewPid(pid_max)
            BY <3>2, <1>0, <1>5, <1>6 DEF PidsKnown
      <4> QED BY <4>1, <2>1
    <3> QED BY <3>1, <3>2
  <2>3. ASSUME NEW p \in Runtimes, phase'[p] = "ready" PROVE pid'[p] = NewPid(p)
    <3>1. CASE p = c BY <3>1, <1>6
    <3>2. CASE p # c BY <3>2, <2>3, <1>0, <1>6 DEF PidsKnown
    <3> QED BY <3>1, <3>2
  <2>4. ASSUME NEW p \in Runtimes, phase'[p] = "waiting"
        PROVE  child'[p] \in Runtimes /\ pid'[p] = NewPid(child'[p])
    <3>1. p # c /\ phase[p] = "waiting" BY <2>4, <1>6
    <3>2. p # Top BY <3>1, <1>a
    <3> QED BY <3>1, <3>2, <1>0, <1>6 DEF PidsKnown
  <2> QED BY <1>2, <2>2, <2>3, <2>4 DEF PidsKnown
<1> QED BY <1>8, <1>9, <1>10, <1>11, <1>12 DEF Tree
\* wait that enters run(): the child is ready, so it is in no frame and has no child.
LEMMA TreeWaitRuns == Tree /\ WaitRuns => Tree'
<1> SUFFICES ASSUME Tree, WaitRuns PROVE Tree' OBVIOUS
<1>0. TreeTypes /\ FramesNest /\ TopDecided /\ Unborn /\ PidsKnown BY DEF Tree
<1>b. PICK c : c = child[Top] OBVIOUS
<1>c. PICK n : n = Len(frames) OBVIOUS
<1>1. /\ n \in Nat \ {0} /\ Top \in Runtimes /\ frames[n] = Top
      /\ \A k \in 1 .. n : frames[k] \in Runtimes
      BY <1>0, <1>c, TopIsRuntime DEF Top
<1>a. phase[Top] = "running" /\ c # None /\ phase[c] = "ready"
      BY <1>b DEF WaitRuns, Calling
<1>2. /\ pid_max' = pid_max /\ child' = child /\ frames' = Append(frames, c)
      /\ pid' = [pid EXCEPT ![Top] = pid[c]]
      /\ phase' = [phase EXCEPT ![Top] = "waiting", ![c] = "running"]
      BY <1>b DEF WaitRuns
<1>3. c \in Runtimes /\ c # Top
  <2>1. c \in 0 .. MaxRuntimes BY <1>0, <1>1, <1>b DEF TreeTypes
  <2>2. c \in Runtimes BY <2>1, <1>a, BoundAssumption DEF Runtimes, None
  <2> QED BY <2>2, <1>a
<1>4. /\ phase'[Top] = "waiting" /\ phase'[c] = "running"
      /\ \A p \in Runtimes \ {c, Top} : phase'[p] = phase[p]
      /\ pid'[Top] = pid[c] /\ \A p \in Runtimes \ {Top} : pid'[p] = pid[p]
      BY <1>0, <1>1, <1>2, <1>3 DEF TreeTypes
<1>5. /\ frames' \in Seq(Runtimes) /\ Len(frames') = n + 1 /\ frames'[n + 1] = c
      /\ \A k \in 1 .. n : frames'[k] = frames[k]
      BY <1>0, <1>2, <1>3, <1>c, AppendProperties DEF TreeTypes
<1>6. Top' = c BY <1>5 DEF Top
<1>7. TreeTypes'
  <2>1. pid' \in [Runtimes -> Int] BY <1>0, <1>2, <1>3 DEF TreeTypes
  <2>2. phase' \in [Runtimes -> Phases] BY <1>0, <1>2 DEF TreeTypes, Phases
  <2>3. frames' # <<>> BY <1>1, <1>5
  <2> QED BY <2>1, <2>2, <2>3, <1>0, <1>2, <1>5 DEF TreeTypes
<1>8. FramesNest'
  <2>1. ASSUME NEW k \in 1 .. n - 1
        PROVE  /\ k \in 1 .. n /\ k + 1 \in 1 .. n /\ phase[frames[k]] = "waiting"
               /\ frames[k + 1] = child[frames[k]]
        BY <1>0, <1>1, <1>c DEF FramesNest
  <2>2. ASSUME NEW k \in 1 .. n
        PROVE  phase'[frames'[k]] = "waiting" /\ frames'[k + 1] = child'[frames'[k]]
    <3>1. CASE k = n BY <3>1, <1>1, <1>2, <1>4, <1>5, <1>b
    <3>2. CASE k # n
      <4>1. k \in 1 .. n - 1 BY <3>2, <1>1
      <4>2. frames[k] \in Runtimes \ {c, Top} BY <4>1, <2>1, <1>1, <1>a
      <4>3. frames'[k] = frames[k] /\ frames'[k + 1] = frames[k + 1] BY <4>1, <2>1, <1>5
      <4>4. phase'[frames[k]] = "waiting" BY <4>1, <4>2, <2>1, <1>4
      <4> QED BY <4>1, <4>3, <4>4, <2>1, <1>2
    <3> QED BY <3>1, <3>2
  <2>3. ASSUME NEW p \in Runtimes, phase'[p] \in {"running", "waiting"}
        PROVE  \E k \in 1 .. n + 1 : frames'[k] = p
    <3>1. CASE p = c BY <3>1, <1>1, <1>5
    <3>2. CASE p = Top BY <3>2, <1>1, <1>5
    <3>3. CASE p # c /\ p # Top
      <4>1. PICK k \in 1 .. n : frames[k] = p
            BY <3>3, <2>3, <1>0, <1>4, <1>c DEF FramesNest
      <4> QED BY <4>1, <1>1, <1>5
    <3> QED BY <3>1, <3>2, <3>3
  <2>4. frames'[1] = 1 BY <1>0, <1>1, <1>5, <1>c DEF FramesNest
  <2>5. Len(frames') - 1 = n BY <1>1, <1>5
  <2> QED BY <1>4, <1>5, <1>6, <2>2, <2>3, <2>4, <2>5 DEF FramesNest
<1>9. TopDecided'
  <2>1. child[c] = None BY <1>0, <1>3, <1>a DEF Unborn
  <2> QED BY <2>1, <1>2, <1>6 DEF TopDecided
<1>10. Unborn'
  <2>1. ASSUME NEW p \in Runtimes, p > pid_max PROVE phase'[p] = "unborn"
    <3>1. phase[p] = "unborn" BY <2>1, <1>0 DEF Unborn
    <3> QED BY <3>1, <1>a, <1>4
  <2>2. ASSUME NEW p \in Runtimes, phase'[p] \in {"unborn", "ready"} PROVE child'[p] = None
    <3>1. p # Top /\ p # c BY <2>2, <1>4
    <3> QED BY <3>1, <2>2, <1>0, <1>2, <1>4 DEF Unborn
  <2> QED BY <1>2, <2>1, <2>2 DEF Unborn
<1>11. PidsKnown'
  <2>1. pid[c] = NewPid(c) /\ pid[c] <= NewPid(pid_max) BY <1>0, <1>3, <1>a DEF PidsKnown
  <2>2. ASSUME NEW p \in Runtimes PROVE pid'[p] <= NewPid(pid_max)
    <3>1. CASE p = Top BY <3>1, <2>1, <1>4
    <3>2. CASE p # Top BY <3>2, <1>0, <1>4 DEF PidsKnown
    <3> QED BY <3>1, <3>2
  <2>3. ASSUME NEW p \in Runtimes, phase'[p] = "ready" PROVE pid'[p] = NewPid(p)
    <3>1. p # Top /\ p # c BY <2>3, <1>4
    <3> QED BY <3>1, <2>3, <1>0, <1>4 DEF PidsKnown
  <2>4. ASSUME NEW p \in Runtimes, phase'[p] = "waiting"
        PROVE  child'[p] \in Runtimes /\ pid'[p] = NewPid(child'[p])
    <3>1. CASE p = Top BY <3>1, <2>1, <1>2, <1>3, <1>4, <1>b
    <3>2. CASE p # Top
      <4>1. p # c BY <2>4, <1>4
      <4> QED BY <3>2, <4>1, <2>4, <1>0, <1>2, <1>4 DEF PidsKnown
    <3> QED BY <3>1, <3>2
  <2> QED BY <1>2, <2>2, <2>3, <2>4 DEF PidsKnown
<1> QED BY <1>7, <1>8, <1>9, <1>10, <1>11 DEF Tree

\* The rest of wait: the child that is deleted has left the frames.
LEMMA TreeWaitReturns == Tree /\ WaitReturns => Tree'
<1> SUFFICES ASSUME Tree, WaitReturns PROVE Tree' OBVIOUS
<1>0. TreeTypes /\ FramesNest /\ TopDecided /\ Unborn /\ PidsKnown BY DEF Tree
<1>b. PICK c : c = child[Top] OBVIOUS
<1>c. PICK n : n = Len(frames) OBVIOUS
<1>1. /\ n \in Nat \ {0} /\ Top \in Runtimes /\ frames[n] = Top
      /\ \A k \in 1 .. n : frames[k] \in Runtimes
      BY <1>0, <1>c, TopIsRuntime DEF Top
<1>a. phase[Top] = "waiting" /\ phase[c] = "returned"
      BY <1>0, <1>b DEF WaitReturns, FramesNest
<1>2. /\ pid_max' = pid_max /\ child' = child /\ frames' = frames /\ pid' = pid
      /\ phase' = [phase EXCEPT ![Top] = "running", ![c] = "deleted"]
      BY <1>b DEF WaitReturns
<1>3. c \in Runtimes /\ c # Top BY <1>0, <1>1, <1>a, <1>b DEF PidsKnown
<1>4. /\ phase'[Top] = "running" /\ phase'[c] = "deleted"
      /\ \A p \in Runtimes \ {c, Top} : phase'[p] = phase[p]
      BY <1>0, <1>1, <1>2, <1>3 DEF TreeTypes
<1>6. Top' = Top BY <1>2 DEF Top
<1>7. TreeTypes'
  <2>2. phase' \in [Runtimes -> Phases] BY <1>0, <1>2 DEF TreeTypes, Phases
  <2> QED BY <2>2, <1>0, <1>2 DEF TreeTypes
<1>8. FramesNest'
  <2>1. ASSUME NEW k \in 1 .. n - 1
        PROVE  /\ k \in 1 .. n /\ k + 1 \in 1 .. n /\ phase[frames[k]] = "waiting"
               /\ frames[k + 1] = child[frames[k]]
        BY <1>0, <1>1, <1>c DEF FramesNest
  <2>2. ASSUME NEW k \in 1 .. n - 1 PROVE frames[k] \in Runtimes \ {c, Top}
    <3>1. frames[k] \in Runtimes /\ frames[k] # c BY <2>1, <1>1, <1>a
    <3>2. ASSUME frames[k] = Top PROVE FALSE
      <4>1. phase[frames[k + 1]] = "returned" BY <3>2, <2>1, <1>a, <1>b
      <4>2. CASE k + 1 = n BY <4>1, <4>2, <1>1, <1>a
      <4>3. CASE k + 1 # n
        <5>1. k + 1 \in 1 .. n - 1 BY <4>3, <1>1
        <5> QED BY <5>1, <4>1, <2>1
      <4> QED BY <4>2, <4>3
    <3> QED BY <3>1, <3>2
  <2>3. ASSUME NEW k \in 1 .. n - 1
        PROVE  phase'[frames'[k]] = "waiting" /\ frames'[k + 1] = child'[frames'[k]]
        BY <2>1, <2>2, <1>2, <1>4
  <2>4. ASSUME NEW p \in Runtimes, phase'[p] \in {"running", "waiting"}
        PROVE  \E k \in 1 .. n : frames'[k] = p
    <3>1. CASE p = Top BY <3>1, <1>1, <1>2
    <3>2. CASE p # Top
      <4>1. p # c BY <2>4, <1>4
      <4> QED BY <3>2, <4>1, <2>4, <1>0, <1>2, <1>4, <1>c DEF FramesNest
    <3> QED BY <3>1, <3>2
  <2>5. frames'[1] = 1 /\ Len(frames') = n BY <1>0, <1>2, <1>c DEF FramesNest
  <2> QED BY <1>4, <1>6, <2>3, <2>4, <2>5 DEF FramesNest
<1>9. TopDecided' BY <1>2, <1>4, <1>6, <1>b DEF TopDecided
<1>10. Unborn'
  <2>1. ASSUME NEW p \in Runtimes, p > pid_max PROVE phase'[p] = "unborn"
    <3>1. phase[p] = "unborn" BY <2>1, <1>0 DEF Unborn
    <3> QED BY <3>1, <1>a, <1>4
  <2>2. ASSUME NEW p \in Runtimes, phase'[p] \in {"unborn", "ready"} PROVE child'[p] = None
    <3>1. p # Top /\ p # c BY <2>2, <1>4
    <3> QED BY <3>1, <2>2, <1>0, <1>2, <1>4 DEF Unborn
  <2> QED BY <1>2, <2>1, <2>2 DEF Unborn
<1>11. PidsKnown'
  <2>1. ASSUME NEW p \in Runtimes, phase'[p] \in {"ready", "waiting"} PROVE phase[p] = phase'[p]
    <3>1. p # Top /\ p # c BY <2>1, <1>4
    <3> QED BY <3>1, <1>4
  <2> QED BY <2>1, <1>0, <1>2 DEF PidsKnown
<1> QED BY <1>7, <1>8, <1>9, <1>10, <1>11 DEF Tree

LEMMA TreeWaitChildless == Tree /\ WaitChildless => Tree'
<1> SUFFICES ASSUME Tree, WaitChildless PROVE Tree' OBVIOUS
<1>0. TreeTypes /\ FramesNest /\ TopDecided /\ Unborn /\ PidsKnown BY DEF Tree
<1>1. /\ pid_max' = pid_max /\ child' = child /\ frames' = frames /\ phase' = phase
      /\ pid' = [pid EXCEPT ![Top] = 0] /\ phase[Top] = "running"
      BY DEF WaitChildless, Calling
<1>2. Top \in Runtimes BY <1>0, TopIsRuntime
<1>3. pid'[Top] = 0 /\ \A p \in Runtimes \ {Top} : pid'[p] = pid[p]
      BY <1>0, <1>1, <1>2 DEF TreeTypes
<1>4. TreeTypes'
  <2>1. pid \in [Runtimes -> Int] /\ 0 \in Int BY <1>0 DEF TreeTypes
  <2>2. pid' = [pid EXCEPT ![Top] = 0] BY <1>1
  <2>3. pid' \in [Runtimes -> Int] BY <2>1, <2>2
  <2> QED BY <2>3, <1>0, <1>1 DEF TreeTypes
<1>5. FramesNest' /\ TopDecided' /\ Unborn'
      BY <1>0, <1>1 DEF FramesNest, TopDecided, Unborn, Top
<1>6. PidsKnown'
  <2>1. ASSUME NEW p \in Runtimes PROVE pid'[p] <= NewPid(pid_max)
    <3>1. 0 <= NewPid(pid_max)
          BY <1>0, BoundAssumption DEF TreeTypes, NewPid, Runtimes
    <3>2. CASE p = Top BY <3>1, <3>2, <1>3
    <3>3. CASE p # Top BY <3>3, <1>0, <1>3 DEF PidsKnown
    <3> QED BY <3>2, <3>3
  <2>2. ASSUME NEW p \in Runtimes, phase[p] \in {"ready", "waiting"} PROVE pid'[p] = pid[p]
        BY <2>2, <1>1, <1>3
  <2> QED BY <2>1, <2>2, <1>0, <1>1 DEF PidsKnown
<1> QED BY <1>4, <1>5, <1>6 DEF Tree

\* exit of a child: the frame below is the one that waits for it.
LEMMA TreeExit == Tree /\ Exit => Tree'
<1> SUFFICES ASSUME Tree, Exit PROVE Tree' OBVIOUS
<1>0. TreeTypes /\ FramesNest /\ TopDecided /\ Unborn /\ PidsKnown BY DEF Tree
<1>c. PICK n : n = Len(frames) OBVIOUS
<1>1. /\ n \in Nat \ {0} /\ Top \in Runtimes /\ frames[n] = Top
      /\ \A k \in 1 .. n : frames[k] \in Runtimes
      BY <1>0, <1>c, TopIsRuntime DEF Top
<1>a. phase[Top] = "running" BY DEF Exit, Calling
<1>2. CASE n = 1
  <2>1. UNCHANGED treeVars BY <1>2, <1>c DEF Exit, treeVars
  <2> QED BY <2>1, TreeQuiet
<1>3. CASE n # 1
  <2>1. /\ pid_max' = pid_max /\ child' = child /\ pid' = pid
        /\ phase' = [phase EXCEPT ![Top] = "returned"] /\ frames' = SubSeq(frames, 1, n - 1)
        BY <1>3, <1>c DEF Exit
  <2>2. phase'[Top] = "returned" /\ \A p \in Runtimes \ {Top} : phase'[p] = phase[p]
        BY <2>1, <1>0, <1>1 DEF TreeTypes
  <2>3. /\ frames' \in Seq(Runtimes) /\ Len(frames') = n - 1 /\ n - 1 >= 1
        /\ \A k \in 1 .. n - 1 : frames'[k] = frames[k]
    <3>1. frames \in Seq(Runtimes) /\ n - 1 \in 0 .. n /\ n - 1 >= 1
          BY <1>0, <1>1, <1>3, <1>c DEF TreeTypes
    <3>2. /\ SubSeq(frames, 1, n - 1) \in Seq(Runtimes)
          /\ Len(SubSeq(frames, 1, n - 1)) = n - 1
          /\ \A k \in 1 .. n - 1 : SubSeq(frames, 1, n - 1)[k] = frames[k]
          BY <3>1, <1>c
    <3> QED BY <2>1, <3>1, <3>2
  <2>4. Top' = frames[n - 1] BY <2>3, <1>1 DEF Top
  <2>5. ASSUME NEW k \in 1 .. n - 1
        PROVE  /\ k \in 1 .. n /\ frames[k] \in Runtimes \ {Top}
               /\ phase[frames[k]] = "waiting" /\ frames[k + 1] = child[frames[k]]
        BY <1>0, <1>1, <1>a, <1>c DEF FramesNest
  <2>6. Top' \in Runtimes \ {Top} /\ phase[Top'] = "waiting" /\ child[Top'] = Top
    <3>1. n - 1 \in 1 .. n - 1 /\ n - 1 + 1 = n BY <2>3, <1>1
    <3> QED BY <3>1, <2>4, <2>5, <1>1
  <2>7. TreeTypes'
    <3>1. phase' \in [Runtimes -> Phases] BY <2>1, <1>0 DEF TreeTypes, Phases
    <3>2. frames' # <<>> BY <2>3
    <3> QED BY <3>1, <3>2, <2>1, <2>3, <1>0 DEF TreeTypes
  <2>8. FramesNest'
    <3>1. ASSUME NEW k \in 1 .. n - 2
          PROVE  phase'[frames'[k]] = "waiting" /\ frames'[k + 1] = child'[frames'[k]]
      <4>1. k \in 1 .. n - 1 /\ k + 1 \in 1 .. n - 1 BY <1>1
      <4> QED BY <4>1, <2>1, <2>2, <2>3, <2>5
    <3>2. phase'[Top'] = "waiting" /\ phase'[child'[Top']] = "returned"
          BY <2>1, <2>2, <2>6
    <3>3. ASSUME NEW p \in Runtimes, phase'[p] \in {"running", "waiting"}
          PROVE  \E k \in 1 .. n - 1 : frames'[k] = p
      <4>1. p # Top /\ phase'[p] = phase[p] BY <3>3, <2>2
      <4>2. PICK k \in 1 .. n : frames[k] = p
            BY <4>1, <3>3, <1>0, <1>c DEF FramesNest
      <4>3. k \in 1 .. n - 1 BY <4>1, <4>2, <1>1
      <4> QED BY <4>2, <4>3, <2>3
    <3>4. frames'[1] = 1 BY <2>3, <1>0 DEF FramesNest
    <3>5. Len(frames') = n - 1 /\ Len(frames') - 1 = n - 2 BY <2>3, <1>1
    <3> QED BY <3>1, <3>2, <3>3, <3>4, <3>5 DEF FramesNest
  <2>9. TopDecided' BY <2>2, <2>6 DEF TopDecided
  <2>10. Unborn'
    <3>1. ASSUME NEW p \in Runtimes, p > pid_max PROVE phase'[p] = "unborn"
          BY <3>1, <2>2, <1>0, <1>a DEF Unborn
    <3>2. ASSUME NEW p \in Runtimes, phase'[p] \in {"unborn", "ready"} PROVE child'[p] = None
          BY <3>2, <2>1, <2>2, <1>0 DEF Unborn
    <3> QED BY <2>1, <3>1, <3>2 DEF Unborn
  <2>11. PidsKnown'
    <3>1. ASSUME NEW p \in Runtimes, phase'[p] \in {"ready", "waiting"} PROVE phase[p] = phase'[p]
          BY <3>1, <2>2
    <3> QED BY <3>1, <2>1, <1>0 DEF PidsKnown
  <2> QED BY <2>7, <2>8, <2>9, <2>10, <2>11 DEF Tree
<1> QED BY <1>2, <1>3

\* The other steps leave the five variables alone.
LEMMA TreeNext == Tree /\ [Next]_vars => Tree'
<1> SUFFICES ASSUME Tree, [Next]_vars PROVE Tree' OBVIOUS
<1>1. CASE Compute BY <1>1, TreeQuiet DEF Compute, treeVars, processVars
<1>2. CASE Fork BY <1>2, TreeFork
<1>3. CASE WaitRuns BY <1>3, TreeWaitRuns
<1>4. CASE WaitReturns BY <1>4, TreeWaitReturns
<1>5. CASE WaitChildless BY <1>5, TreeWaitChildless
<1>6. CASE WaitDangling BY <1>6, TreeQuiet DEF WaitDangling, treeVars, processVars
<1>7. CASE Exit BY <1>7, TreeExit
<1>8. CASE Exec BY <1>8, TreeQuiet DEF Exec, treeVars, processVars
<1>9. CASE Getpid BY <1>9, TreeQuiet DEF Getpid, treeVars, processVars
<1>10. CASE Brk BY <1>10, TreeQuiet DEF Brk, treeVars, processVars
<1>11. CASE Signal BY <1>11, TreeQuiet DEF Signal, treeVars, processVars
<1>12. CASE Sigaction BY <1>12, TreeQuiet DEF Sigaction, SigactionOf, treeVars, processVars
<1>13. CASE Files
  <2>1. FileCall BY <1>13 DEF Files, Open, Creat, Close, Read, Write, WriteOf, Lseek, PathCall,
                             Stat, Ioctl, Ask
  <2> QED BY <2>1, TreeQuiet DEF FileCall, treeVars, processVars
<1>14. CASE Die BY <1>14, TreeQuiet DEF Die, treeVars, processVars
<1>15. CASE UNCHANGED vars BY <1>15, TreeQuiet DEF vars, treeVars
<1>16. CASE Over BY <1>16, <1>15 DEF Over
<1> QED BY <1>1, <1>2, <1>3, <1>4, <1>5, <1>6, <1>7, <1>8, <1>9, <1>10, <1>11, <1>12, <1>13,
           <1>14, <1>15, <1>16 DEF Next, Process

-----------------------------------------------------------------------------
\* What the processes keep besides: memory, handlers, replies, descriptors and sizes.
Replies == m_type \in [Runtimes -> 0 .. MaxWord] /\ errno \in Nat
Pids == pid \in [Runtimes -> 0 .. MaxWord]
Memories == data \in [Runtimes -> [Cells -> Words]] /\ sigary \in [Runtimes -> Handlers]
Opens == open \subseteq Descriptors /\ written \subseteq open
Sizes == sizes \in [Runtimes -> [data : Nat, brk : Nat]]
Holding == TreeTypes /\ Pids /\ Replies /\ Memories /\ Opens /\ Sizes /\ BreakAboveData

\* The provers would list 0 .. MaxWord if they knew what MaxWord is.
LEMMA WordSize ==
  /\ MaxWord \in Int /\ 12241 <= MaxWord
  /\ \A e \in Int : Negative(e) = MaxWord + 1 - e
<1>1. MaxWord = 65535 BY DEF MaxWord
<1> QED BY <1>1 DEF Negative

LEMMA NegativeFits ==
  ASSUME NEW e \in Nat
  PROVE  Negative(e) % 65536 \in 0 .. MaxWord
<1>1. Negative(e) = 65536 - e BY DEF Negative
<1>2. (65536 - e) % 65536 \in Int /\ 0 <= (65536 - e) % 65536 /\ (65536 - e) % 65536 < 65536
      OBVIOUS
<1>3. MaxWord + 1 = 65536 /\ MaxWord \in Int BY DEF MaxWord
<1> QED BY <1>1, <1>2, <1>3

LEMMA RepliesFit ==
  ASSUME TreeTypes, Replies, NEW v \in 0 .. MaxWord, m_type' = [m_type EXCEPT ![Top] = v]
  PROVE  m_type' \in [Runtimes -> 0 .. MaxWord] /\ m_type'[Top] = v
<1>1. Top \in Runtimes BY TopIsRuntime
<1>2. m_type \in [Runtimes -> 0 .. MaxWord] BY DEF Replies
<1> QED BY <1>1, <1>2

LEMMA FailuresFit ==
  ASSUME TreeTypes, Replies, NEW e \in 1 .. MaxWord,
         m_type' = [m_type EXCEPT ![Top] = Negative(e)], errno' = e
  PROVE  Replies'
<1>1. Negative(e) \in 0 .. MaxWord BY WordSize
<1>2. errno' \in Nat OBVIOUS
<1>3. m_type' \in [Runtimes -> 0 .. MaxWord] BY <1>1, RepliesFit
<1> QED BY <1>2, <1>3 DEF Replies

LEMMA NewPidsFit ==
  ASSUME NEW c \in Runtimes
  PROVE  NewPid(c) \in 0 .. MaxWord
<1>1. MaxWord \in Int BY WordSize
<1> QED BY <1>1, BoundAssumption DEF NewPid, Runtimes

\* An image loaded into a process leaves its break above its data.
LEMMA LoadedFits ==
  ASSUME NEW i \in Images
  PROVE  /\ LoadedSizes(i) \in [data : Nat, brk : Nat]
         /\ LoadedSizes(i).brk >= LoadedSizes(i).data
BY ImagesAssumption DEF LoadedSizes

LEMMA HoldingInit == Init => Holding
<1> SUFFICES ASSUME Init PROVE Holding OBVIOUS
<1>1. TreeTypes BY TreeInit DEF Tree
<1>2. Pids
  <2>1. 1 \in Runtimes BY BoundAssumption DEF Runtimes
  <2>2. NewPid(1) \in 0 .. MaxWord BY <2>1, NewPidsFit
  <2>3. pid = [p \in Runtimes |-> IF p = 1 THEN NewPid(1) ELSE 0] BY DEF Init
  <2>4. 0 \in 0 .. MaxWord BY WordSize
  <2> QED BY <2>2, <2>3, <2>4 DEF Pids
<1>3. Replies
  <2>1. m_type = [p \in Runtimes |-> 0] /\ errno = 0 BY DEF Init
  <2> QED BY <2>1, WordSize DEF Replies
<1>4. PICK i \in Images : /\ data = [p \in Runtimes |-> i.data]
                          /\ sizes = [p \in Runtimes |-> LoadedSizes(i)] BY DEF Init
<1>5. Memories
  <2>1. i.data \in [Cells -> Words] BY ImagesAssumption
  <2>2. PICK h \in Handlers : sigary = [p \in Runtimes |-> h] BY DEF Init
  <2> QED BY <2>1, <2>2, <1>4 DEF Memories
<1>6. Opens BY DEF Init, Opens
<1>7. Sizes /\ BreakAboveData BY <1>4, LoadedFits DEF Sizes, BreakAboveData
<1> QED BY <1>1, <1>2, <1>3, <1>5, <1>6, <1>7 DEF Holding

LEMMA HoldingNext == Tree /\ Tree' /\ Holding /\ [Next]_vars => Holding'
<1> SUFFICES ASSUME Tree, Tree', Holding, [Next]_vars PROVE Holding' OBVIOUS
<1>a. TreeTypes /\ Pids /\ Replies /\ Memories /\ Opens /\ Sizes /\ BreakAboveData BY DEF Holding
<1>b. TreeTypes' BY DEF Tree
<1>c. Top \in Runtimes BY <1>a, TopIsRuntime
<1>d. ASSUME UNCHANGED <<m_type, errno>> PROVE Replies' BY <1>a, <1>d DEF Replies
<1>e. ASSUME UNCHANGED pid PROVE Pids' BY <1>a, <1>e DEF Pids
<1>f. ASSUME UNCHANGED <<data, sigary>> PROVE Memories' BY <1>a, <1>f DEF Memories
<1>g. ASSUME UNCHANGED fileVars PROVE Opens' BY <1>a, <1>g DEF Opens, fileVars
<1>h. ASSUME UNCHANGED sizes PROVE Sizes' /\ BreakAboveData'
      BY <1>a, <1>h DEF Sizes, BreakAboveData
<1>i. ASSUME NEW v \in 0 .. MaxWord, m_type' = [m_type EXCEPT ![Top] = v], UNCHANGED errno
      PROVE  Replies'
      BY <1>a, <1>i, RepliesFit DEF Replies
<1>j. ASSUME NEW a \in Cells, NEW v \in Words, data' = [data EXCEPT ![Top][a] = v],
             UNCHANGED sigary
      PROVE  Memories'
  <2>1. data' \in [Runtimes -> [Cells -> Words]] BY <1>a, <1>c, <1>j DEF Memories
  <2> QED BY <2>1, <1>a, <1>j DEF Memories
<1>k. 0 \in 0 .. MaxWord /\ Negative(1) \in 0 .. MaxWord BY WordSize
<1>l. /\ ENOENT \in 1 .. MaxWord /\ EBADF \in 1 .. MaxWord /\ ENOMEM \in 1 .. MaxWord
      /\ EINVAL \in 1 .. MaxWord
      BY WordSize DEF ENOENT, EBADF, ENOMEM, EINVAL
<1>m. ASSUME UNCHANGED <<pid, m_type, errno, data, sigary, open, written, sizes>> PROVE Holding'
      BY <1>m, <1>b, <1>d, <1>e, <1>f, <1>g, <1>h DEF Holding, fileVars
<1>1. CASE Compute
  <2>1. Memories' BY <1>1, <1>j DEF Compute
  <2> QED BY <1>1, <2>1, <1>b, <1>d, <1>e, <1>g, <1>h
          DEF Compute, Holding, processVars, hostVars
<1>2. CASE Fork
  <2>1. PICK c : c = pid_max + 1 OBVIOUS
  <2>2. c \in Runtimes /\ NewPid(c) \in 0 .. MaxWord
    <3>1. pid_max < MaxRuntimes BY <1>2 DEF Fork
    <3>2. c \in Runtimes BY <2>1, <3>1, <1>a, BoundAssumption DEF TreeTypes, Runtimes
    <3> QED BY <3>2, NewPidsFit
  <2>3. /\ pid' = [pid EXCEPT ![c] = NewPid(c)]
        /\ data' = [data EXCEPT ![c] = data[Top]]
        /\ sizes' = [sizes EXCEPT ![c] = sizes[Top]]
        /\ m_type' = [m_type EXCEPT ![Top] = NewPid(c), ![c] = 0]
        /\ UNCHANGED <<fileVars, errno>>
        BY <1>2, <2>1 DEF Fork, hostVars
  <2>4. PICK h \in Handlers : sigary' = [sigary EXCEPT ![c] = h] BY <1>2, <2>1 DEF Fork
  <2>5. Pids' BY <2>2, <2>3, <1>a DEF Pids
  <2>6. Replies' BY <2>2, <2>3, <1>a, <1>c, <1>k DEF Replies
  <2>7. data' \in [Runtimes -> [Cells -> Words]] BY <2>3, <1>a, <1>c DEF Memories
  <2>8. sigary' \in [Runtimes -> Handlers] BY <2>4, <1>a DEF Memories
  <2>9. Sizes' BY <2>3, <1>a, <1>c DEF Sizes
  <2>10. BreakAboveData' BY <2>3, <1>a, <1>c DEF BreakAboveData, Sizes
  <2> QED BY <2>3, <2>5, <2>6, <2>7, <2>8, <2>9, <2>10, <1>b, <1>g DEF Holding, Memories
<1>3. CASE WaitRuns
  <2>1. child[Top] \in Runtimes
    <3>1. child[Top] \in 0 .. MaxRuntimes /\ child[Top] # 0
          BY <1>3, <1>a, <1>c DEF WaitRuns, TreeTypes, None
    <3> QED BY <3>1, BoundAssumption DEF Runtimes
  <2>2. pid' = [pid EXCEPT ![Top] = pid[child[Top]]] BY <1>3 DEF WaitRuns
  <2>3. Pids' BY <2>1, <2>2, <1>a DEF Pids
  <2> QED BY <1>3, <2>3, <1>b, <1>d, <1>f, <1>g, <1>h
          DEF WaitRuns, Holding, memoryVars, hostVars
<1>4. CASE WaitReturns
  <2>1. pid[Top] \in 0 .. MaxWord BY <1>a, <1>c DEF Pids
  <2>2. Replies' BY <1>4, <2>1, <1>i DEF WaitReturns, hostVars, Reply
  <2> QED BY <1>4, <2>2, <1>b, <1>e, <1>f, <1>g, <1>h
          DEF WaitReturns, Holding, memoryVars, hostVars
<1>5. CASE WaitChildless
  <2>1. pid' = [pid EXCEPT ![Top] = 0] BY <1>5 DEF WaitChildless
  <2>2. Pids' BY <2>1, <1>a, <1>k DEF Pids
  <2>3. Replies' BY <1>5, <1>i, <1>k DEF WaitChildless, hostVars, Reply
  <2> QED BY <1>5, <2>2, <2>3, <1>b, <1>f, <1>g, <1>h
          DEF WaitChildless, Holding, memoryVars, hostVars
<1>6. CASE WaitDangling
      BY <1>6, <1>m DEF WaitDangling, processVars, memoryVars, hostVars, fileVars
<1>7. CASE Exit BY <1>7, <1>m DEF Exit, memoryVars, hostVars, fileVars
<1>8. CASE Exec
  <2>1. PICK i \in Images : /\ data' = [data EXCEPT ![Top] = i.data]
                            /\ sizes' = [sizes EXCEPT ![Top] = LoadedSizes(i)]
        BY <1>8 DEF Exec
  <2>2. i.data \in [Cells -> Words] BY ImagesAssumption
  <2>3. data' \in [Runtimes -> [Cells -> Words]] BY <2>1, <2>2, <1>a DEF Memories
  <2>4. [s \in Known |-> 0] \in Handlers BY MemoryAssumption DEF Handlers
  <2>5. sigary' \in [Runtimes -> Handlers] BY <1>8, <2>4, <1>a DEF Exec, Memories
  <2>6. Sizes' BY <2>1, <1>a, LoadedFits DEF Sizes
  <2>7. BreakAboveData'
    <3>1. ASSUME NEW p \in Runtimes PROVE sizes'[p].brk >= sizes'[p].data
      <4>1. CASE p = Top
        <5>1. sizes'[p] = LoadedSizes(i) BY <4>1, <2>1, <1>a DEF Sizes
        <5> QED BY <5>1, LoadedFits
      <4>2. CASE p # Top
        <5>1. sizes'[p] = sizes[p] BY <4>2, <2>1, <1>a DEF Sizes
        <5> QED BY <5>1, <1>a DEF BreakAboveData
      <4> QED BY <4>1, <4>2
    <3> QED BY <3>1 DEF BreakAboveData
  <2>8. Replies' BY <1>8, <1>i, <1>k DEF Exec, hostVars, Reply
  <2> QED BY <1>8, <2>3, <2>5, <2>6, <2>7, <2>8, <1>b, <1>e, <1>g
          DEF Exec, Holding, Memories, processVars, hostVars
<1>9. CASE Getpid
  <2>1. pid[Top] \in 0 .. MaxWord BY <1>a, <1>c DEF Pids
  <2>2. Replies' BY <1>9, <2>1, <1>i DEF Getpid, hostVars, Reply
  <2> QED BY <1>9, <2>2, <1>b, <1>e, <1>f, <1>g, <1>h
          DEF Getpid, Holding, processVars, memoryVars, hostVars
<1>10. CASE Brk
  <2>1. PICK a \in Breaks, sp \in StackPointers : BrkTo(a, sp) BY <1>10 DEF Brk
  <2>2. a \in Nat BY CallsAssumption
  <2>3. CASE Fail(ENOMEM) /\ UNCHANGED sizes
    <3>1. Replies' BY <2>3, <1>a, <1>l, FailuresFit DEF Fail, Reply
    <3> QED BY <1>10, <2>3, <3>1, <1>b, <1>e, <1>f, <1>g, <1>h DEF Brk, Holding, processVars
  <2>4. CASE /\ ~(a < sizes[Top].data) /\ Reply(0) /\ UNCHANGED errno
             /\ sizes' = [sizes EXCEPT ![Top].brk = a]
    <3>1. Replies' BY <2>4, <1>i, <1>k DEF Reply
    <3>2. sizes[Top].data \in Nat /\ sizes[Top].brk \in Nat /\ a >= sizes[Top].data
          BY <2>2, <2>4, <1>a, <1>c DEF Sizes
    <3>3. Sizes' BY <2>2, <2>4, <1>a, <1>c DEF Sizes
    <3>4. BreakAboveData' BY <2>2, <2>4, <3>2, <1>a, <1>c DEF Sizes, BreakAboveData
    <3> QED BY <1>10, <3>1, <3>3, <3>4, <1>b, <1>e, <1>f, <1>g DEF Brk, Holding, processVars
  <2> QED BY <2>1, <2>3, <2>4 DEF BrkTo
<1>11. CASE Signal
  <2>1. PICK s \in Signals, h \in Words :
          IF s \in Known
          THEN Reply(sigary[Top][s]) /\ sigary' = [sigary EXCEPT ![Top][s] = h] /\ UNCHANGED errno
          ELSE Fail(EINVAL) /\ UNCHANGED sigary
        BY <1>11 DEF Signal
  <2>2. Replies' /\ Memories'
    <3>1. CASE s \in Known
      <4>1. sigary[Top][s] \in 0 .. MaxWord
            BY <3>1, <1>a, <1>c, MemoryAssumption DEF Memories, Handlers
      <4>2. Replies' BY <2>1, <3>1, <4>1, <1>i DEF Reply
      <4>3. sigary' \in [Runtimes -> Handlers]
        <5>1. sigary' = [sigary EXCEPT ![Top][s] = h] BY <2>1, <3>1
        <5>2. sigary \in [Runtimes -> [Known -> Words]] BY <1>a DEF Memories, Handlers
        <5>3. sigary' \in [Runtimes -> [Known -> Words]] BY <5>1, <5>2, <3>1, <1>c
        <5> QED BY <5>3 DEF Handlers
      <4> QED BY <4>2, <4>3, <1>11, <1>a DEF Memories, Signal
    <3>2. CASE s \notin Known
      <4>1. Fail(EINVAL) /\ UNCHANGED sigary BY <3>2, <2>1
      <4> QED BY <4>1, <1>11, <1>a, <1>f, <1>l, FailuresFit DEF Signal, Fail, Reply
    <3> QED BY <3>1, <3>2
  <2> QED BY <1>11, <2>2, <1>b, <1>e, <1>g, <1>h DEF Signal, Holding, processVars
<1>12. CASE Sigaction
  <2>1. PICK s \in Signals, act \in Cells, oact \in Cells : SigactionOf(s, act, oact)
        BY <1>12 DEF Sigaction
  <2>2. Replies' /\ Memories'
    <3>1. CASE s \in Known
      <4>0. PICK stored : stored = IF oact = 0 THEN data[Top]
                                   ELSE [data[Top] EXCEPT ![oact] = sigary[Top][s]] OBVIOUS
      <4>1. /\ data' = [data EXCEPT ![Top] = stored]
            /\ sigary' = [sigary EXCEPT ![Top][s] = stored[act]]
            /\ Reply(0) /\ UNCHANGED errno
            BY <2>1, <3>1, <4>0 DEF SigactionOf
      <4>2. data[Top] \in [Cells -> Words] /\ sigary[Top][s] \in Words
            BY <3>1, <1>a, <1>c DEF Memories, Handlers
      <4>3. stored \in [Cells -> Words]
        <5>1. CASE oact = 0 BY <5>1, <4>0, <4>2
        <5>2. CASE oact # 0 BY <5>2, <4>0, <4>2
        <5> QED BY <5>1, <5>2
      <4>4. data' \in [Runtimes -> [Cells -> Words]] BY <4>1, <4>3, <1>a DEF Memories
      <4>5. stored[act] \in Words BY <4>3
      <4>6. sigary' \in [Runtimes -> Handlers]
            BY <3>1, <4>1, <4>5, <1>a, <1>c DEF Memories, Handlers
      <4>7. Replies' BY <4>1, <1>i, <1>k DEF Reply
      <4> QED BY <4>4, <4>6, <4>7 DEF Memories
    <3>2. CASE s \notin Known
      <4>1. Fail(EINVAL) /\ UNCHANGED <<data, sigary>> BY <3>2, <2>1 DEF SigactionOf
      <4> QED BY <4>1, <1>a, <1>f, <1>l, FailuresFit DEF Fail, Reply
    <3> QED BY <3>1, <3>2
  <2> QED BY <2>1, <2>2, <1>b, <1>e, <1>g, <1>h DEF SigactionOf, Holding, processVars
<1>13. CASE Files
  <2> SUFFICES ASSUME FileCall PROVE Replies' /\ data' \in [Runtimes -> [Cells -> Words]] /\ Opens'
    <3>1. FileCall BY <1>13 DEF Files, Open, Creat, Close, Read, Write, WriteOf, Lseek, PathCall,
                               Stat, Ioctl, Ask
    <3>2. UNCHANGED <<pid, sigary, sizes>> BY <3>1 DEF FileCall, processVars
    <3> QED BY <3>1, <3>2, <1>a, <1>b, <1>e, <1>h DEF Holding, Memories
  <2>1. data \in [Runtimes -> [Cells -> Words]] BY <1>a DEF Memories
  <2>2. ASSUME UNCHANGED data PROVE data' \in [Runtimes -> [Cells -> Words]] BY <2>1, <2>2
  <2>3. ASSUME NEW a \in Cells, NEW v \in Words, data' = [data EXCEPT ![Top][a] = v]
        PROVE  data' \in [Runtimes -> [Cells -> Words]]
        BY <2>1, <2>3, <1>c
  <2>4. ASSUME NEW e \in {ENOENT, EBADF, EINVAL}, Fail(e) PROVE Replies'
        BY <2>4, <1>a, <1>l, FailuresFit DEF Fail, Reply
  <2>5. ASSUME NEW d \in Descriptors, Opened(d) PROVE Replies' /\ Opens'
    <3>1. d \in 0 .. MaxWord BY CallsAssumption
    <3> QED BY <3>1, <2>5, <1>a, <1>i DEF Opened, Opens, Reply
  <2>6. ASSUME NEW e \in Nat, Reply(Negative(1)), errno' = e PROVE Replies'
        BY <2>6, <1>a, <1>k, RepliesFit DEF Replies, Reply
  <2>7. ENOENT \in Nat /\ EBADF \in Nat BY DEF ENOENT, EBADF
  <2>8. CASE Open
    <3>1. CASE \E d \in Descriptors : Opened(d) BY <2>8, <3>1, <2>2, <2>5 DEF Open
    <3>2. CASE Reply(Negative(1)) /\ errno' = ENOENT /\ UNCHANGED fileVars
          BY <2>8, <3>2, <2>2, <2>6, <2>7, <1>g DEF Open
    <3> QED BY <2>8, <3>1, <3>2 DEF Open
  <2>9. CASE Creat
    <3>1. CASE \E d \in Descriptors : Opened(d) BY <2>9, <3>1, <2>2, <2>5 DEF Creat
    <3>2. CASE Fail(ENOENT) /\ UNCHANGED fileVars BY <2>9, <3>2, <2>2, <2>4, <1>g DEF Creat
    <3> QED BY <2>9, <3>1, <3>2 DEF Creat
  <2>10. CASE Close
    <3>1. PICK d \in Descriptors :
            IF d \in open
            THEN Reply(0) /\ open' = open \ {d} /\ written' = written \ {d} /\ UNCHANGED errno
            ELSE Reply(Negative(1)) /\ errno' = EBADF /\ UNCHANGED fileVars
          BY <2>10 DEF Close
    <3>2. CASE Reply(0) /\ open' = open \ {d} /\ written' = written \ {d} /\ UNCHANGED errno
          BY <2>10, <3>2, <2>2, <1>a, <1>i, <1>k DEF Close, Opens, Reply
    <3>3. CASE Reply(Negative(1)) /\ errno' = EBADF /\ UNCHANGED fileVars
          BY <2>10, <3>3, <2>2, <2>6, <2>7, <1>g DEF Close
    <3> QED BY <3>1, <3>2, <3>3
  <2>11. CASE Read
    <3>1. CASE \E n \in Lengths, a \in Cells, v \in Words :
                 Reply(n) /\ data' = [data EXCEPT ![Top][a] = v] /\ UNCHANGED errno
      <4>1. PICK n \in Lengths, a \in Cells, v \in Words :
              Reply(n) /\ data' = [data EXCEPT ![Top][a] = v] /\ UNCHANGED errno BY <3>1
      <4>2. n \in 0 .. MaxWord BY CallsAssumption
      <4> QED BY <2>11, <4>1, <4>2, <2>3, <1>g, <1>i DEF Read, Reply
    <3>2. CASE Reply(0) /\ UNCHANGED <<data, errno>>
          BY <2>11, <3>2, <2>2, <1>g, <1>i, <1>k DEF Read, Reply
    <3>3. CASE Fail(EBADF) /\ UNCHANGED data BY <2>11, <3>3, <2>2, <2>4, <1>g DEF Read
    <3> QED BY <2>11, <3>1, <3>2, <3>3 DEF Read
  <2>12. CASE Write
    <3>1. PICK d \in Descriptors, n \in Lengths : WriteOf(d, n) BY <2>12 DEF Write
    <3>2. CASE d \in open
      <4>1. n \in 0 .. MaxWord /\ Negative(errno) % 65536 \in 0 .. MaxWord
            BY <1>a, CallsAssumption, NegativeFits DEF Replies
      <4>2. (IF n = MaxWord THEN Negative(errno) % 65536 ELSE n) \in 0 .. MaxWord BY <4>1
      <4>3. /\ Reply(IF n = MaxWord THEN Negative(errno) % 65536 ELSE n)
            /\ written' = written \cup {d} /\ UNCHANGED <<open, data, errno>>
            BY <3>1, <3>2 DEF WriteOf
      <4>4. PICK v \in 0 .. MaxWord : v = IF n = MaxWord THEN Negative(errno) % 65536 ELSE n
            BY <4>2
      <4>5. Reply(v) /\ UNCHANGED errno BY <4>3, <4>4
      <4>6. Replies' BY <4>5, <1>i DEF Reply
      <4>7. open' = open /\ written' = written \cup {d} BY <4>3
      <4>8. Opens' BY <3>2, <4>7, <1>a DEF Opens
      <4> QED BY <4>3, <4>6, <4>8, <2>2
    <3>3. CASE d \notin open
      <4>1. Fail(EBADF) /\ UNCHANGED <<written, open, data>> BY <3>1, <3>3 DEF WriteOf
      <4> QED BY <4>1, <2>2, <2>4, <1>g DEF fileVars
    <3> QED BY <3>2, <3>3
  <2>13. CASE Lseek \/ PathCall \/ Ioctl \/ Ask
    <3>1. /\ UNCHANGED <<data, fileVars>>
          /\ \/ Reply(0) /\ UNCHANGED errno
             \/ Fail(EBADF) \/ Fail(ENOENT) \/ Fail(EINVAL)
          BY <2>13 DEF Lseek, PathCall, Ioctl, Ask, hostVars
    <3> QED BY <3>1, <2>2, <2>4, <1>g, <1>i, <1>k DEF Reply
  <2>14. CASE Stat
    <3>1. CASE \E a \in Cells, v \in Words :
                 data' = [data EXCEPT ![Top][a] = v] /\ Reply(0) /\ UNCHANGED errno
          BY <2>14, <3>1, <2>3, <1>g, <1>i, <1>k DEF Stat, Reply
    <3>2. CASE Fail(ENOENT) /\ UNCHANGED data BY <2>14, <3>2, <2>2, <2>4, <1>g DEF Stat
    <3> QED BY <2>14, <3>1, <3>2 DEF Stat
  <2> QED BY <1>13, <2>8, <2>9, <2>10, <2>11, <2>12, <2>13, <2>14 DEF Files
<1>14. CASE Die BY <1>14, <1>m DEF Die, processVars, memoryVars, hostVars, fileVars
<1>15. CASE UNCHANGED vars BY <1>15, <1>m DEF vars
<1>16. CASE Over BY <1>16, <1>15 DEF Over
<1> QED BY <1>1, <1>2, <1>3, <1>4, <1>5, <1>6, <1>7, <1>8, <1>9, <1>10, <1>11, <1>12, <1>13,
           <1>14, <1>15, <1>16 DEF Next, Process

LEMMA Always == Spec => [](Tree /\ Holding)
<1>1. Init => Tree /\ Holding BY TreeInit, HoldingInit
<1>2. Tree /\ Holding /\ [Next]_vars => (Tree /\ Holding)' BY TreeNext, HoldingNext
<1> QED BY <1>1, <1>2, PTL DEF Spec
-----------------------------------------------------------------------------
\* Pids, replies, handlers and memory keep to their ranges, and only open descriptors
\* have been written through.
THEOREM TypesKept == Spec => []TypeOK
<1>1. Tree /\ Holding => TypeOK
      BY DEF Tree, Holding, TreeTypes, Pids, Replies, Memories, Opens, TypeOK
<1> QED BY <1>1, Always, PTL

\* brk, fork and exec leave the break of every process above the data of its image.
THEOREM BreaksAboveData == Spec => []BreakAboveData
<1>1. Tree /\ Holding => BreakAboveData BY DEF Holding
<1> QED BY <1>1, Always, PTL

\* The nested calls of run() are a path in the tree of children, ended by the one
\* process that acts, however many processes there are (X86Minix::wait).
THEOREM NestingOfRuns == Spec => []FramesNest
<1>1. Tree /\ Holding => FramesNest BY DEF Tree
<1> QED BY <1>1, Always, PTL

\* Every process that can make a call has a child that was never run, or one already
\* deleted, or none: no wait finds its child in the middle of its life.
THEOREM WaitsDecided == Spec => []WaitIsDecided
<1>1. Tree /\ Holding => WaitIsDecided BY DEF Tree, TopDecided, WaitIsDecided, Calling
<1> QED BY <1>1, Always, PTL

\* wait replies the pid that fork replied, whatever the child has waited for meanwhile.
THEOREM WaitGivesForkedPid == Spec => WaitAnswersFork
<1>1. Tree /\ Holding => [WaitReturns => m_type'[Top] = NewPid(child[Top])]_vars
  <2> SUFFICES ASSUME Tree, Holding, WaitReturns PROVE m_type'[Top] = NewPid(child[Top])
      OBVIOUS
  <2>1. TreeTypes /\ Replies /\ Pids /\ Top \in Runtimes /\ phase[Top] = "waiting"
        BY TopIsRuntime DEF Holding, WaitReturns
  <2>2. pid[Top] = NewPid(child[Top]) BY <2>1 DEF Tree, PidsKnown
  <2>3. pid[Top] \in 0 .. MaxWord BY <2>1 DEF Pids
  <2>4. m_type'[Top] = pid[Top] BY <2>1, <2>3, RepliesFit DEF WaitReturns, Reply
  <2> QED BY <2>2, <2>4
<1> QED BY <1>1, Always, PTL DEF WaitAnswersFork

\* The pid given out by fork is that of no process ready, running or waiting, although
\* a parent that waits takes over the pid of its child.
THEOREM FreshPids == Spec => PidsAreFresh
<1>1. Tree /\ Holding =>
        [Fork => \A p \in Runtimes :
           phase[p] \in {"ready", "running", "waiting"} => pid[p] # m_type'[Top]]_vars
  <2> SUFFICES ASSUME Tree, Holding, Fork, NEW p \in Runtimes PROVE pid[p] # m_type'[Top]
      OBVIOUS
  <2>1. PICK c : c = pid_max + 1 OBVIOUS
  <2>2. /\ TreeTypes /\ Unborn /\ Top \in Runtimes /\ phase[Top] = "running"
        /\ m_type \in [Runtimes -> 0 .. MaxWord]
        BY TopIsRuntime DEF Holding, Tree, Fork, Calling, Replies
  <2>a. pid_max < MaxRuntimes BY DEF Fork
  <2>3. pid_max \in Nat /\ c \in Runtimes /\ c > pid_max
        BY <2>1, <2>2, <2>a, BoundAssumption DEF TreeTypes, Runtimes
  <2>4. c # Top BY <2>2, <2>3 DEF Unborn
  <2>5. m_type' = [m_type EXCEPT ![Top] = NewPid(c), ![c] = 0] BY <2>1 DEF Fork
  <2>6. m_type'[Top] = NewPid(c) BY <2>2, <2>4, <2>5
  <2>7. pid[p] \in Int /\ pid[p] <= NewPid(pid_max) BY DEF Holding, Pids, Tree, PidsKnown
  <2> QED BY <2>1, <2>3, <2>6, <2>7 DEF NewPid
<1> QED BY <1>1, Always, PTL DEF PidsAreFresh
-----------------------------------------------------------------------------
\* A number of bytes or a descriptor can be told from an error, ...
RepliesTold == (Lengths \cup Descriptors) \cap Errors = {} /\ Negative(1) \notin Descriptors
\* ... and so can the handler that signal replies.
HandlersTold == \A p \in Runtimes, s \in Known : sigary[p][s] \notin Errors

\* The reply of a call is the one it leaves.
LEMMA ReplyGiven ==
  ASSUME Holding, NEW v, Reply(v)
  PROVE  m_type'[Top] = v
BY TopIsRuntime DEF Holding, Replies, Reply

\* Neither 0 nor -1 is one of the errors.
LEMMA NotErrors == 0 \notin Errors /\ Negative(1) \notin Errors
BY DEF Errors, Negative, ENOENT, EBADF, ENOMEM, EINVAL

\* Calls about memory and handlers.
LEMMA CallsFail ==
  ASSUME Holding, HandlersTold, Brk \/ Signal \/ Sigaction, m_type'[Top] \in Errors
  PROVE  UNCHANGED <<memoryVars, fileVars>>
<1>1. CASE Brk
  <2>1. PICK a \in Breaks, sp \in StackPointers : BrkTo(a, sp) BY <1>1 DEF Brk
  <2>2. UNCHANGED <<data, sigary, fileVars>> BY <1>1 DEF Brk
  <2>3. ~Reply(0) BY NotErrors, ReplyGiven
  <2>4. UNCHANGED sizes BY <2>1, <2>3 DEF BrkTo
  <2> QED BY <2>2, <2>4 DEF memoryVars
<1>2. CASE Signal
  <2>1. UNCHANGED <<data, sizes, fileVars>> BY <1>2 DEF Signal
  <2>2. PICK s \in Signals : \/ s \in Known /\ Reply(sigary[Top][s])
                             \/ UNCHANGED sigary
        BY <1>2 DEF Signal
  <2>3. Top \in Runtimes BY TopIsRuntime DEF Holding
  <2>4. UNCHANGED sigary
    <3>1. ASSUME s \in Known, Reply(sigary[Top][s]) PROVE FALSE
      <4>1. m_type'[Top] = sigary[Top][s] BY <3>1, ReplyGiven
      <4> QED BY <2>3, <3>1, <4>1 DEF HandlersTold
    <3> QED BY <2>2, <3>1
  <2> QED BY <2>1, <2>4 DEF memoryVars
<1>3. CASE Sigaction
  <2>1. PICK s \in Signals, act \in Cells, oact \in Cells : SigactionOf(s, act, oact)
        BY <1>3 DEF Sigaction
  <2>2. ~Reply(0) BY NotErrors, ReplyGiven
  <2>3. UNCHANGED <<data, sigary, sizes, fileVars>> BY <2>1, <2>2 DEF SigactionOf
  <2> QED BY <2>3 DEF memoryVars
<1> QED BY <1>1, <1>2, <1>3

\* Calls about files.
LEMMA FileCallsFail ==
  ASSUME Holding, RepliesTold, Files, m_type'[Top] \in Errors
  PROVE  UNCHANGED <<memoryVars, fileVars>> \/ \E d \in Descriptors : WriteOf(d, MaxWord)
<1>1. ~Reply(0) /\ ~Reply(Negative(1)) BY NotErrors, ReplyGiven
<1>2. ASSUME NEW n \in Lengths \cup Descriptors PROVE ~Reply(n)
      BY ReplyGiven DEF RepliesTold
<1>3. UNCHANGED <<sigary, sizes>>
      BY DEF Files, Open, Creat, Close, Read, Write, WriteOf, Lseek, PathCall, Stat, Ioctl, Ask,
             FileCall
<1>4. \A d \in Descriptors : ~Opened(d) BY <1>2 DEF Opened
<1>5. CASE Open BY <1>1, <1>3, <1>4, <1>5 DEF Open, memoryVars
<1>6. CASE Creat BY <1>3, <1>4, <1>6 DEF Creat, memoryVars
<1>7. CASE Close BY <1>1, <1>7 DEF Close
<1>8. CASE Read
  <2>1. UNCHANGED fileVars /\ UNCHANGED data BY <1>1, <1>2, <1>8 DEF Read
  <2> QED BY <1>3, <2>1 DEF memoryVars
<1>9. CASE Write
  <2>1. PICK d \in Descriptors, n \in Lengths : WriteOf(d, n) BY <1>9 DEF Write
  <2>2. CASE n = MaxWord BY <2>1, <2>2
  <2>3. CASE n # MaxWord
    <3>1. d \notin open
      <4>1. ASSUME d \in open PROVE Reply(n) BY <2>1, <2>3, <4>1 DEF WriteOf
      <4> QED BY <1>2, <4>1
    <3>2. UNCHANGED <<data, open, written>> BY <2>1, <3>1 DEF WriteOf
    <3> QED BY <1>3, <3>2 DEF memoryVars, fileVars
  <2> QED BY <2>2, <2>3
<1>10. CASE Lseek \/ PathCall \/ Ioctl
  <2>1. UNCHANGED <<data, fileVars>> BY <1>10 DEF Lseek, PathCall, Ioctl
  <2> QED BY <1>3, <2>1 DEF memoryVars
<1>11. CASE Stat
  <2>1. UNCHANGED <<data, fileVars>> BY <1>1, <1>11 DEF Stat
  <2> QED BY <1>3, <2>1 DEF memoryVars
<1>12. CASE Ask BY <1>1, <1>12 DEF Ask
<1> QED BY <1>5, <1>6, <1>7, <1>8, <1>9, <1>10, <1>11, <1>12 DEF Files

\* open and close, when they reply -1.
LEMMA OpensFail ==
  ASSUME Holding, RepliesTold, Open \/ Close, m_type'[Top] = Negative(1)
  PROVE  UNCHANGED <<memoryVars, fileVars>>
<1>1. Negative(1) # 0 BY DEF Negative
<1>2. ~Reply(0) BY <1>1, ReplyGiven
<1>3. \A d \in Descriptors : ~Opened(d)
  <2> TAKE d \in Descriptors
  <2> QED BY ReplyGiven DEF Opened, RepliesTold
<1>4. UNCHANGED <<data, sigary, sizes>> BY DEF Open, Close, FileCall
<1>5. CASE Open BY <1>3, <1>4, <1>5 DEF Open, memoryVars
<1>6. CASE Close BY <1>2, <1>4, <1>6 DEF Close, memoryVars
<1> QED BY <1>5, <1>6

\* As long as no handler's address looks like an error number, a call that replies an
\* error has changed neither memory, break and handlers nor the descriptors of the
\* host, but for the write of 65535 bytes: the checks of brk, sigaction and the file
\* calls come before everything they store.
THEOREM FailuresLeaveNothing ==
  RepliesTold /\ Spec /\ []HandlersTold => FailuresChangeNothing
<1> SUFFICES ASSUME RepliesTold PROVE Spec /\ []HandlersTold => FailuresChangeNothing
    OBVIOUS
<1>1. Holding /\ HandlersTold =>
        [Failing => \/ UNCHANGED <<memoryVars, fileVars>>
                    \/ \E d \in Descriptors : WriteOf(d, MaxWord)]_vars
    BY CallsFail, FileCallsFail, OpensFail DEF Failing
<1> QED BY <1>1, Always, PTL DEF FailuresChangeNothing
-----------------------------------------------------------------------------
\* Nobody has two parents, and no child comes before its fork.
Kinship ==
  /\ \A p, q \in Runtimes : child[p] # None /\ child[p] = child[q] => p = q
  /\ \A p \in Runtimes : child[p] <= pid_max
  /\ DOMAIN code = Runtimes

LEMMA KinshipInit == Init => Kinship
<1> SUFFICES ASSUME Init PROVE Kinship OBVIOUS
<1>1. /\ pid_max = 1 /\ child = [p \in Runtimes |-> 0] /\ code = [p \in Runtimes |-> 0]
      /\ phase = [p \in Runtimes |-> IF p = 1 THEN "running" ELSE "unborn"]
      BY DEF Init, None
<1>2. \A p \in Runtimes : child[p] = None /\ child[p] <= pid_max /\ phase[p] # "returned"
      BY <1>1 DEF None
<1> QED BY <1>1, <1>2 DEF Kinship

LEMMA KinshipNext == Tree /\ Kinship /\ [Next]_vars => Kinship'
<1> SUFFICES ASSUME Tree, Kinship, [Next]_vars PROVE Kinship' OBVIOUS
<1>0. TreeTypes /\ FramesNest /\ TopDecided /\ Unborn /\ PidsKnown BY DEF Tree
<1>1. Top \in Runtimes BY <1>0, TopIsRuntime
<1>a. ASSUME UNCHANGED <<pid_max, child>>, DOMAIN code' = DOMAIN code PROVE Kinship'
      BY <1>a DEF Kinship
<1>2. CASE Fork
  <2>1. PICK c : c = pid_max + 1 OBVIOUS
  <2>2. /\ pid_max' = c /\ child' = [child EXCEPT ![Top] = c] /\ code' = code
        /\ phase' = [phase EXCEPT ![c] = "ready"]
        BY <1>2, <2>1 DEF Fork
  <2>3. pid_max \in Nat /\ c \in Nat /\ c > pid_max BY <1>0, <2>1 DEF TreeTypes, Runtimes
  <2>4. \A p \in Runtimes : child[p] \in Int /\ child[p] <= pid_max
        BY <1>0 DEF Kinship, TreeTypes
  <2>5. child'[Top] = c /\ \A p \in Runtimes \ {Top} : child'[p] = child[p]
        BY <2>2, <1>0, <1>1 DEF TreeTypes
  <2>6. ASSUME NEW p \in Runtimes, NEW q \in Runtimes, child'[p] # None, child'[p] = child'[q]
        PROVE  p = q
    <3>1. p = Top <=> q = Top BY <2>3, <2>4, <2>5, <2>6
    <3> QED BY <2>5, <2>6, <3>1 DEF Kinship
  <2>7. ASSUME NEW p \in Runtimes PROVE child'[p] <= c BY <2>3, <2>4, <2>5
  <2> QED BY <2>2, <2>6, <2>7 DEF Kinship
<1>3. CASE WaitRuns BY <1>3, <1>a DEF WaitRuns
<1>4. CASE WaitReturns BY <1>4, <1>a DEF WaitReturns
<1>5. CASE WaitChildless BY <1>5, <1>a DEF WaitChildless
<1>6. CASE Exit
  <2>1. PICK k \in Codes : code' = [code EXCEPT ![Top] = k] BY <1>6 DEF Exit
  <2>2. UNCHANGED <<pid_max, child>> BY <1>6 DEF Exit
  <2> QED BY <2>1, <2>2, <1>a
<1>7. CASE UNCHANGED <<pid_max, child, code>> BY <1>7, <1>a
<1>8. CASE Compute \/ WaitDangling \/ Exec \/ Getpid \/ Brk \/ Signal \/ Sigaction \/ Die
      BY <1>8, <1>7 DEF Compute, WaitDangling, Exec, Getpid, Brk, Signal, Sigaction, SigactionOf,
                        Die, processVars
<1>9. CASE Files
  <2>1. FileCall BY <1>9 DEF Files, Open, Creat, Close, Read, Write, WriteOf, Lseek, PathCall,
                             Stat, Ioctl, Ask
  <2> QED BY <2>1, <1>7 DEF FileCall, processVars
<1>10. CASE Over \/ UNCHANGED vars BY <1>10, <1>7 DEF Over, vars
<1> QED BY <1>2, <1>3, <1>4, <1>5, <1>6, <1>8, <1>9, <1>10 DEF Next, Process
-----------------------------------------------------------------------------
\* What the mapping makes of a process and of a child.
LEMMA LifeIs ==
  ASSUME NEW ph
  PROVE  /\ ph = "unborn" => LifeIn(ph, FALSE) = "unborn"
         /\ ph \in {"ready", "running", "waiting"} => LifeIn(ph, FALSE) = "alive"
         /\ ph = "running" => LifeIn(ph, TRUE) = "zombie"
         /\ ph = "returned" => LifeIn(ph, FALSE) = "zombie"
         /\ ph = "deleted" => LifeIn(ph, FALSE) = "gone"
<1>1. ASSUME ph = "unborn" PROVE LifeIn(ph, FALSE) = "unborn" BY <1>1 DEF LifeIn
<1>2. ASSUME ph \in {"ready", "running", "waiting"} PROVE LifeIn(ph, FALSE) = "alive"
      BY <1>2 DEF LifeIn
<1>3. ASSUME ph = "running" PROVE LifeIn(ph, TRUE) = "zombie" BY <1>3 DEF LifeIn
<1>4. ASSUME ph = "returned" PROVE LifeIn(ph, FALSE) = "zombie" BY <1>4 DEF LifeIn
<1>5. ASSUME ph = "deleted" PROVE LifeIn(ph, FALSE) = "gone" BY <1>5 DEF LifeIn
<1> QED BY <1>1, <1>2, <1>3, <1>4, <1>5

\* While the interpreter goes on, a life is told by the phase alone.
LEMMA LifeNow ==
  /\ ended = "no" => Life = [p \in Runtimes |-> LifeIn(phase[p], FALSE)]
  /\ ended' = "no" => Life' = [p \in Runtimes |-> LifeIn(phase'[p], FALSE)]
<1>1. ASSUME ended = "no", NEW p \in Runtimes
      PROVE  LifeIn(phase[p], p = 1 /\ ended = "exit") = LifeIn(phase[p], FALSE)
  <2>1. (p = 1 /\ ended = "exit") = FALSE BY <1>1
  <2> QED BY <2>1
<1>2. ASSUME ended' = "no", NEW p \in Runtimes
      PROVE  LifeIn(phase'[p], p = 1 /\ ended' = "exit") = LifeIn(phase'[p], FALSE)
  <2>1. (p = 1 /\ ended' = "exit") = FALSE BY <1>2
  <2> QED BY <2>1
<1>3. Life' = [p \in Runtimes |-> LifeIn(phase'[p], p = 1 /\ ended' = "exit")]
      BY DEF Life, LifeIn
<1> QED BY <1>1, <1>2, <1>3 DEF Life

LEMMA ParentIs ==
  ASSUME Kinship, NEW p \in Runtimes, child[p] \in Runtimes, phase[child[p]] # "deleted"
  PROVE  Parent[child[p]] = p
<1>1. child[p] # None BY BoundAssumption DEF Runtimes, None
<1>2. ParentOf(child[p]) = {p} BY <1>1 DEF Kinship, ParentOf
<1>3. OneOf({p}) = p BY DEF OneOf
<1> QED BY <1>2, <1>3 DEF Parent

LEMMA NoParent ==
  ASSUME NEW c \in Runtimes, phase[c] = "deleted"
  PROVE  Parent[c] = 0
<1>1. ParentOf(c) = {} BY DEF ParentOf
<1> QED BY <1>1 DEF Parent, OneOf

\* The parent of a child is kept where the pointers to it and its deletion are.
LEMMA ParentStays ==
  ASSUME NEW c \in Runtimes, phase'[c] = "deleted" <=> phase[c] = "deleted",
         phase[c] = "deleted" \/ \A p \in Runtimes : child'[p] = c <=> child[p] = c
  PROVE  Parent'[c] = Parent[c]
<1>1. ParentOf(c)' = ParentOf(c) BY DEF ParentOf
<1>2. Parent'[c] = OneOf(ParentOf(c)') BY DEF Parent, OneOf
<1> QED BY <1>1, <1>2 DEF Parent

LEMMA ParentsAre ==
  /\ Parent = [c \in Runtimes |-> Parent[c]]
  /\ Parent' = [c \in Runtimes |-> Parent'[c]]
<1>1. Parent' = [c \in Runtimes |-> OneOf(ParentOf(c)')] BY DEF Parent, OneOf
<1> QED BY <1>1 DEF Parent

LEMMA ParentsKept ==
  ASSUME child' = child, \A c \in Runtimes : phase'[c] = "deleted" <=> phase[c] = "deleted"
  PROVE  Parent' = Parent
<1>1. \A c \in Runtimes : Parent'[c] = Parent[c] BY ParentStays
<1> QED BY <1>1, ParentsAre

\* A function that differs from another at one place.
LEMMA ExceptIs ==
  ASSUME NEW S, NEW f, NEW g, f = [x \in S |-> f[x]], g = [x \in S |-> g[x]],
         NEW a \in S, \A x \in S \ {a} : g[x] = f[x]
  PROVE  g = [f EXCEPT ![a] = g[a]]
<1>1. \A x \in S : g[x] = [f EXCEPT ![a] = g[a]][x] OBVIOUS
<1> QED BY <1>1
-----------------------------------------------------------------------------
\* A step of the one process that acts, which makes and ends no process.
LEMMA ComputeImplements ==
  ASSUME Tree, Holding', Calling, UNCHANGED <<child, phase, status, code, ended>>,
         \A q \in Runtimes \ {Top} : data'[q] = data[q],
         m_type' = [m_type EXCEPT ![Top] = m_type'[Top]]
  PROVE  Unix!Compute(Top)
<1>1. Top \in Runtimes BY TopIsRuntime DEF Tree
<1>2. Life' = Life BY DEF Life, LifeIn
<1>3. Parent' = Parent BY ParentsKept
<1>4. Life[Top] = "alive" BY <1>1, LifeNow, LifeIs DEF Calling
<1>5. data' \in [Runtimes -> [Cells -> Words]] BY DEF Holding, Memories
<1> QED BY <1>2, <1>3, <1>4, <1>5 DEF Unix!Compute

\* fork makes the child of a process that has none to wait for.
LEMMA ForkImplements ==
  ASSUME Tree, Kinship, ForkInTurn
  PROVE  \E c \in Runtimes : Unix!Fork(Top, c)
<1>0. TreeTypes /\ TopDecided /\ Unborn /\ Top \in Runtimes BY TopIsRuntime DEF Tree
<1>1. PICK c : c = pid_max + 1 OBVIOUS
<1>2. /\ ended = "no" /\ phase[Top] = "running" /\ pid_max < MaxRuntimes
      /\ child' = [child EXCEPT ![Top] = c] /\ phase' = [phase EXCEPT ![c] = "ready"]
      /\ data' = [data EXCEPT ![c] = data[Top]]
      /\ m_type' = [m_type EXCEPT ![Top] = NewPid(c), ![c] = 0]
      /\ status' = [status EXCEPT ![c] = status[Top]]
      /\ code' = code /\ ended' = ended
      BY <1>1 DEF ForkInTurn, Fork, Calling
<1>3. c \in Runtimes /\ c > pid_max /\ c # None /\ pid_max \in Nat
      BY <1>0, <1>1, <1>2, BoundAssumption DEF TreeTypes, Runtimes, None
<1>4. phase[c] = "unborn" /\ c # Top BY <1>0, <1>2, <1>3 DEF Unborn
<1>5. /\ phase'[c] = "ready" /\ \A p \in Runtimes \ {c} : phase'[p] = phase[p]
      /\ child'[Top] = c /\ \A p \in Runtimes \ {Top} : child'[p] = child[p]
      BY <1>0, <1>2, <1>3 DEF TreeTypes
<1>6. Life[Top] = "alive" /\ Life[c] = "unborn" BY <1>0, <1>2, <1>3, <1>4, LifeNow, LifeIs
<1>7. Life' = [Life EXCEPT ![c] = "alive"]
  <2>1. Life'[c] = "alive" BY <1>2, <1>3, <1>5, LifeNow, LifeIs
  <2>2. ASSUME NEW p \in Runtimes \ {c} PROVE Life'[p] = Life[p]
    <3>1. Life'[p] = LifeIn(phase'[p], FALSE) /\ Life[p] = LifeIn(phase[p], FALSE)
          BY <1>2, LifeNow
    <3> QED BY <3>1, <1>5
  <2>3. Life = [p \in Runtimes |-> Life[p]] /\ Life' = [p \in Runtimes |-> Life'[p]]
        BY <1>2, LifeNow
  <2> QED BY <2>1, <2>2, <2>3, <1>3, ExceptIs
<1>8. Parent' = [Parent EXCEPT ![c] = Top]
  <2>1. \A p \in Runtimes : child[p] <= pid_max /\ child[p] \in Int
        BY <1>0 DEF Kinship, TreeTypes
  <2>2. Parent'[c] = Top
    <3>1. ParentOf(c)' = {Top} BY <2>1, <1>0, <1>3, <1>5 DEF ParentOf
    <3>2. OneOf({Top}) = Top BY DEF OneOf
    <3>3. Parent'[c] = OneOf(ParentOf(c)') BY <1>3 DEF Parent, OneOf
    <3> QED BY <3>1, <3>2, <3>3
  <2>3. ASSUME NEW d \in Runtimes \ {c} PROVE Parent'[d] = Parent[d]
    <3>1. phase'[d] = phase[d] BY <1>5
    <3>2. CASE child[Top] # d
      <4>1. \A p \in Runtimes : child'[p] = d <=> child[p] = d BY <3>2, <1>5
      <4> QED BY <3>1, <4>1, ParentStays
    <3>3. CASE child[Top] = d
      <4>1. phase[d] = "deleted"
        <5>1. d # None BY BoundAssumption DEF Runtimes, None
        <5> QED BY <5>1, <3>3, <1>0, <1>2 DEF ForkInTurn, ChildDue, TopDecided
      <4> QED BY <3>1, <4>1, ParentStays
    <3> QED BY <3>2, <3>3
  <2> QED BY <2>2, <2>3, <1>3, ParentsAre, ExceptIs
<1> QED BY <1>2, <1>3, <1>6, <1>7, <1>8 DEF Unix!Fork

\* The wait that enters run() is no step: the child it wakes has been alive.
LEMMA WaitRunsStutters ==
  ASSUME Tree, WaitRuns
  PROVE  UNCHANGED Unix!vars
<1>0. TreeTypes /\ Top \in Runtimes BY TopIsRuntime DEF Tree
<1>1. PICK c : c = child[Top] OBVIOUS
<1>2. /\ ended = "no" /\ ended' = ended /\ phase[Top] = "running" /\ phase[c] = "ready"
      /\ phase' = [phase EXCEPT ![Top] = "waiting", ![c] = "running"] /\ child' = child
      /\ UNCHANGED <<data, m_type, code, status>>
      BY <1>1 DEF WaitRuns, Calling, memoryVars
<1>3. \A p \in Runtimes : \/ phase'[p] = phase[p]
                          \/ phase[p] \in {"ready", "running"} /\ phase'[p] \in {"running", "waiting"}
      BY <1>0, <1>2 DEF TreeTypes
<1>4. \A p \in Runtimes : LifeIn(phase'[p], FALSE) = LifeIn(phase[p], FALSE) BY <1>3, LifeIs
<1>5. Life' = Life BY <1>2, <1>4, LifeNow
<1>6. Parent' = Parent BY <1>2, <1>3, ParentsKept
<1> QED BY <1>2, <1>5, <1>6 DEF Unix!vars

\* The rest of that wait reaps the child, which has left its code.
LEMMA ReapImplements ==
  ASSUME Tree, Kinship, WaitReturns
  PROVE  \E c \in Runtimes : Unix!Reap(Top, c)
<1>0. TreeTypes /\ FramesNest /\ PidsKnown /\ Top \in Runtimes BY TopIsRuntime DEF Tree
<1>1. PICK c : c = child[Top] OBVIOUS
<1>2. /\ ended = "no" /\ ended' = ended /\ phase[Top] = "waiting"
      /\ phase' = [phase EXCEPT ![Top] = "running", ![c] = "deleted"] /\ child' = child
      /\ status' = [status EXCEPT ![Top] = Shifted(code[c])]
      /\ m_type' = [m_type EXCEPT ![Top] = pid[Top]]
      /\ UNCHANGED <<data, code>>
      BY <1>1 DEF WaitReturns, Reply, memoryVars
<1>3. c \in Runtimes /\ pid[Top] = NewPid(c) BY <1>0, <1>1, <1>2 DEF PidsKnown
<1>4. phase[c] = "returned" /\ c # Top BY <1>0, <1>1, <1>2 DEF FramesNest
<1>5. /\ phase'[Top] = "running" /\ phase'[c] = "deleted"
      /\ \A p \in Runtimes \ {c, Top} : phase'[p] = phase[p]
      BY <1>0, <1>2, <1>3, <1>4 DEF TreeTypes
<1>6. /\ Life[Top] = "alive" /\ Life[c] = "zombie"
      /\ Life'[Top] = "alive" /\ Life'[c] = "gone"
  <2>1. Life[Top] = "alive" /\ Life[c] = "zombie" BY <1>0, <1>2, <1>3, <1>4, LifeNow, LifeIs
  <2>2. Life'[Top] = "alive" /\ Life'[c] = "gone" BY <1>0, <1>2, <1>3, <1>5, LifeNow, LifeIs
  <2> QED BY <2>1, <2>2
<1>7. Life' = [Life EXCEPT ![c] = "gone"]
  <2>1. ASSUME NEW p \in Runtimes \ {c} PROVE Life'[p] = Life[p]
    <3>1. CASE p = Top BY <3>1, <1>6
    <3>2. CASE p # Top
      <4>1. Life'[p] = LifeIn(phase'[p], FALSE) /\ Life[p] = LifeIn(phase[p], FALSE)
            BY <1>2, LifeNow
      <4> QED BY <4>1, <3>2, <1>5
    <3> QED BY <3>1, <3>2
  <2>2. Life = [p \in Runtimes |-> Life[p]] /\ Life' = [p \in Runtimes |-> Life'[p]]
        BY <1>2, LifeNow
  <2> QED BY <2>1, <2>2, <1>3, <1>6, ExceptIs
<1>8. Parent[c] = Top BY <1>0, <1>1, <1>3, <1>4, ParentIs
<1>9. Parent' = [Parent EXCEPT ![c] = 0]
  <2>1. Parent'[c] = 0
    <3>1. ParentOf(c)' = {} BY <1>5 DEF ParentOf
    <3>2. Parent'[c] = OneOf(ParentOf(c)') BY <1>3 DEF Parent, OneOf
    <3> QED BY <3>1, <3>2 DEF OneOf
  <2>2. ASSUME NEW d \in Runtimes \ {c} PROVE Parent'[d] = Parent[d]
    <3>1. phase'[d] = "deleted" <=> phase[d] = "deleted" BY <1>2, <1>5
    <3> QED BY <3>1, <1>2, ParentStays
  <2> QED BY <2>1, <2>2, <1>3, ParentsAre, ExceptIs
<1>10. m_type' = [m_type EXCEPT ![Top] = NewPid(c)] BY <1>2, <1>3
<1> QED BY <1>2, <1>3, <1>6, <1>7, <1>8, <1>9, <1>10 DEF Unix!Reap

LEMMA ExitImplements ==
  ASSUME Tree, ExitInTurn
  PROVE  Unix!Exit(Top)
<1>0. TreeTypes /\ FramesNest /\ Top \in Runtimes /\ Len(frames) \in Nat \ {0}
      BY TopIsRuntime DEF Tree
<1>1. /\ ended = "no" /\ phase[Top] = "running" /\ UNCHANGED <<child, status, data, m_type>>
      BY DEF ExitInTurn, Exit, Calling, memoryVars
<1>2. \E k \in Codes : code' = [code EXCEPT ![Top] = k] BY DEF ExitInTurn, Exit
<1>3. Life[Top] = "alive" BY <1>0, <1>1, LifeNow, LifeIs
<1>4. CASE Len(frames) = 1
  <2>1. ended' = "exit" /\ phase' = phase BY <1>4 DEF ExitInTurn, Exit
  <2>2. Top = 1 BY <1>0, <1>4 DEF FramesNest, Top
  <2>3. Life' = [p \in Runtimes |-> LifeIn(phase'[p], p = 1 /\ ended' = "exit")]
        BY DEF Life, LifeIn
  <2>4. Life'[Top] = "zombie"
    <3>1. (Top = 1 /\ ended' = "exit") = TRUE BY <2>1, <2>2
    <3>2. Life'[Top] = LifeIn(phase'[Top], TRUE) BY <2>3, <3>1, <1>0
    <3> QED BY <3>2, <2>1, <1>1, LifeIs
  <2>5. ASSUME NEW p \in Runtimes \ {Top} PROVE Life'[p] = Life[p]
    <3>1. (p = 1 /\ ended' = "exit") = FALSE BY <2>2
    <3>2. Life'[p] = LifeIn(phase'[p], FALSE) BY <2>3, <3>1
    <3>3. Life[p] = LifeIn(phase[p], FALSE) BY <1>1, LifeNow
    <3> QED BY <3>2, <3>3, <2>1
  <2>6. Life = [p \in Runtimes |-> Life[p]] /\ Life' = [p \in Runtimes |-> Life'[p]]
        BY <2>3, <1>1, LifeNow
  <2>7. Life' = [Life EXCEPT ![Top] = "zombie"] BY <2>4, <2>5, <2>6, <1>0, ExceptIs
  <2>8. Parent' = Parent BY <2>1, <1>1, ParentsKept
  <2> QED BY <2>7, <2>8, <1>1, <1>2, <1>3 DEF Unix!Exit
<1>5. CASE Len(frames) # 1
  <2>1. ended' = "no" /\ phase' = [phase EXCEPT ![Top] = "returned"]
        BY <1>5, <1>1 DEF ExitInTurn, Exit
  <2>2. phase'[Top] = "returned" /\ \A p \in Runtimes \ {Top} : phase'[p] = phase[p]
        BY <2>1, <1>0 DEF TreeTypes
  <2>3. Life'[Top] = "zombie" BY <2>1, <2>2, <1>0, LifeNow, LifeIs
  <2>4. ASSUME NEW p \in Runtimes \ {Top} PROVE Life'[p] = Life[p]
    <3>1. Life'[p] = LifeIn(phase'[p], FALSE) /\ Life[p] = LifeIn(phase[p], FALSE)
          BY <2>1, <1>1, LifeNow
    <3> QED BY <3>1, <2>2
  <2>5. Life = [p \in Runtimes |-> Life[p]] /\ Life' = [p \in Runtimes |-> Life'[p]]
        BY <2>1, <1>1, LifeNow
  <2>6. Life' = [Life EXCEPT ![Top] = "zombie"] BY <2>3, <2>4, <2>5, <1>0, ExceptIs
  <2>7. \A p \in Runtimes : phase'[p] = "deleted" <=> phase[p] = "deleted" BY <2>2, <1>1
  <2>8. Parent' = Parent BY <2>7, <1>1, ParentsKept
  <2> QED BY <2>6, <2>8, <1>1, <1>2, <1>3 DEF Unix!Exit
<1> QED BY <1>4, <1>5
-----------------------------------------------------------------------------
\* The calls that make no process store in the memory of the caller only, and reply
\* to it only.
StaysOwn ==
  /\ Calling /\ UNCHANGED <<processVars, ended>>
  /\ \A q \in Runtimes \ {Top} : data'[q] = data[q]
  /\ m_type' = m_type \/ \E v : Reply(v)

LEMMA FileCallsStayOwn == TreeTypes /\ Holding /\ Files => StaysOwn
<1> SUFFICES ASSUME TreeTypes, Holding, Files PROVE StaysOwn OBVIOUS
<1>1. FileCall BY DEF Files, Open, Creat, Close, Read, Write, WriteOf, Lseek, PathCall, Stat,
                      Ioctl, Ask
<1>2. Calling /\ UNCHANGED <<processVars, ended>> BY <1>1 DEF FileCall, Asking
<1>3. \E v : Reply(v)
  <2>1. CASE Open BY <2>1 DEF Open, Opened
  <2>2. CASE Creat BY <2>2 DEF Creat, Opened, Fail
  <2>3. CASE Close BY <2>3 DEF Close
  <2>4. CASE Read BY <2>4 DEF Read, Fail
  <2>5. CASE Write BY <2>5 DEF Write, WriteOf, Fail
  <2>6. CASE Lseek \/ PathCall \/ Ioctl \/ Ask BY <2>6 DEF Lseek, PathCall, Ioctl, Ask, Fail
  <2>7. CASE Stat BY <2>7 DEF Stat, Fail
  <2> QED BY <2>1, <2>2, <2>3, <2>4, <2>5, <2>6, <2>7 DEF Files
<1>4. ASSUME NEW q \in Runtimes \ {Top} PROVE data'[q] = data[q]
  <2>1. \/ data' = data
        \/ \E a \in Cells, v \in Words : data' = [data EXCEPT ![Top][a] = v]
        BY DEF Files, Open, Creat, Close, Read, Write, WriteOf, Lseek, PathCall, Stat, Ioctl, Ask
  <2>2. data \in [Runtimes -> [Cells -> Words]] BY DEF Holding, Memories
  <2> QED BY <2>1, <2>2
<1> QED BY <1>2, <1>3, <1>4 DEF StaysOwn

LEMMA CallsStayOwn ==
  TreeTypes /\ Holding /\ (Compute \/ Exec \/ Getpid \/ Brk \/ Signal \/ Sigaction) => StaysOwn
<1> SUFFICES ASSUME TreeTypes, Holding, Compute \/ Exec \/ Getpid \/ Brk \/ Signal \/ Sigaction
             PROVE  StaysOwn
    OBVIOUS
<1>1. data \in [Runtimes -> [Cells -> Words]] BY DEF Holding, Memories
<1>2. CASE Compute BY <1>1, <1>2 DEF Compute, StaysOwn
<1>3. CASE Exec BY <1>1, <1>3 DEF Exec, StaysOwn
<1>4. CASE Getpid BY <1>4 DEF Getpid, StaysOwn, memoryVars
<1>5. CASE Brk
  <2>1. \E v : Reply(v) BY <1>5 DEF Brk, BrkTo, Fail
  <2> QED BY <2>1, <1>5 DEF Brk, Asking, StaysOwn
<1>6. CASE Signal
  <2>1. \E v : Reply(v) BY <1>6 DEF Signal, Fail
  <2> QED BY <2>1, <1>6 DEF Signal, Asking, StaysOwn
<1>7. CASE Sigaction
  <2>1. PICK s \in Signals, act \in Cells, oact \in Cells : SigactionOf(s, act, oact)
        BY <1>7 DEF Sigaction
  <2>2. \E v : Reply(v) BY <2>1 DEF SigactionOf, Fail
  <2>3. data' = data \/ \E stored : data' = [data EXCEPT ![Top] = stored]
        BY <2>1 DEF SigactionOf
  <2>4. \A q \in Runtimes \ {Top} : data'[q] = data[q] BY <2>3, <1>1
  <2> QED BY <2>1, <2>2, <2>4 DEF SigactionOf, Asking, StaysOwn
<1> QED BY <1>2, <1>3, <1>4, <1>5, <1>6, <1>7

LEMMA InTurnSteps == InTurnNext => Next
BY DEF InTurnNext, Next, Process, ForkInTurn, ExitInTurn

LEMMA NextImplements ==
  Tree /\ Kinship /\ Holding /\ Holding' /\ [InTurnNext]_vars => [Unix!Next]_(Unix!vars)
<1> SUFFICES ASSUME Tree, Kinship, Holding, Holding', [InTurnNext]_vars
             PROVE  Unix!Next \/ UNCHANGED Unix!vars
    OBVIOUS
<1>0. TreeTypes /\ Top \in Runtimes BY TopIsRuntime DEF Tree
<1>1. ASSUME StaysOwn PROVE Unix!Next
  <2>1. m_type \in [Runtimes -> 0 .. MaxWord] BY DEF Holding, Replies
  <2>2. m_type' = [m_type EXCEPT ![Top] = m_type'[Top]]
        BY <1>1, <2>1, <1>0 DEF StaysOwn, Reply
  <2>3. UNCHANGED <<child, phase, status, code, ended>> BY <1>1 DEF StaysOwn, processVars
  <2>4. Unix!Compute(Top) BY <1>1, <2>2, <2>3, ComputeImplements DEF StaysOwn
  <2> QED BY <2>4, <1>0 DEF Unix!Next
<1>2. CASE Compute \/ Exec \/ Getpid \/ Brk \/ Signal \/ Sigaction
      BY <1>0, <1>1, <1>2, CallsStayOwn
<1>3. CASE Files BY <1>0, <1>1, <1>3, FileCallsStayOwn
<1>4. CASE ForkInTurn BY <1>0, <1>4, ForkImplements DEF Unix!Next
<1>5. CASE WaitRuns BY <1>5, WaitRunsStutters
<1>6. CASE WaitReturns BY <1>0, <1>6, ReapImplements DEF Unix!Next
<1>7. CASE ExitInTurn BY <1>0, <1>7, ExitImplements DEF Unix!Next
<1>8. CASE UNCHANGED vars
  <2>1. UNCHANGED <<child, phase, ended, data, m_type, code, status>> BY <1>8 DEF vars
  <2>2. Life' = Life BY <2>1 DEF Life, LifeIn
  <2>3. Parent' = Parent BY <2>1, ParentsKept
  <2> QED BY <2>1, <2>2, <2>3 DEF Unix!vars
<1>9. CASE Over BY <1>8, <1>9 DEF Over
<1> QED BY <1>2, <1>3, <1>4, <1>5, <1>6, <1>7, <1>8, <1>9 DEF InTurnNext

LEMMA InitImplements == Init => Unix!Init
<1> SUFFICES ASSUME Init PROVE Unix!Init OBVIOUS
<1>1. /\ child = [p \in Runtimes |-> 0] /\ ended = "no"
      /\ phase = [p \in Runtimes |-> IF p = 1 THEN "running" ELSE "unborn"]
      /\ code = [p \in Runtimes |-> 0] /\ m_type = [p \in Runtimes |-> 0]
      /\ status = [p \in Runtimes |-> 0]
      BY DEF Init, None
<1>2. Life = [p \in Runtimes |-> IF p = 1 THEN "alive" ELSE "unborn"]
  <2>1. \A p \in Runtimes : LifeIn(phase[p], FALSE) = IF p = 1 THEN "alive" ELSE "unborn"
        BY <1>1, LifeIs
  <2> QED BY <2>1, <1>1, LifeNow
<1>3. Parent = [c \in Runtimes |-> 0]
  <2>1. ASSUME NEW c \in Runtimes PROVE OneOf(ParentOf(c)) = 0
    <3>1. c # 0 BY BoundAssumption DEF Runtimes
    <3>2. ParentOf(c) = {} BY <3>1, <1>1 DEF ParentOf
    <3> QED BY <3>2 DEF OneOf
  <2> QED BY <2>1 DEF Parent
<1>4. data \in [Runtimes -> [Cells -> Words]] BY HoldingInit DEF Holding, Memories
<1> QED BY <1>1, <1>2, <1>3, <1>4 DEF Unix!Init

\* Programs that deal with one child at a time see of fork, wait and exit what
\* UnixProc promises, for any number of processes, although X86Minix::wait runs the
\* child inside the parent's call and never beside it.
THEOREM ImplementsProcesses == InTurnSpec => ImplementsUnix
<1>1. Init => Tree /\ Kinship /\ Holding BY TreeInit, KinshipInit, HoldingInit
<1>2. Tree /\ Kinship /\ Holding /\ [InTurnNext]_vars => (Tree /\ Kinship /\ Holding)'
  <2>1. [InTurnNext]_vars => [Next]_vars BY InTurnSteps
  <2> QED BY <2>1, TreeNext, KinshipNext, HoldingNext
<1>3. Tree /\ Kinship /\ Holding /\ Holding' /\ [InTurnNext]_vars => [Unix!Next]_(Unix!vars)
      BY NextImplements
<1> QED BY <1>1, <1>2, <1>3, InitImplements, PTL DEF InTurnSpec, ImplementsUnix, Unix!Spec
=============================================================================
