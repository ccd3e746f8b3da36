------------------------------ MODULE MCLaunch ------------------------------
(***************************************************************************)
(* Programs started from the command line and by one another: no arguments *)
(* and up to three, of lengths 0 to 3 and one that reaches further down    *)
(* the stack; messages in the middle of memory, inside the arguments of    *)
(* the new image and right below them; an image whose data reaches up to   *)
(* the arguments; paths with /tmp in front, inside and not at all; files   *)
(* that are missing, of Unix V6, and no binaries.                          *)
(***************************************************************************)
EXTENDS Launch

Root == 8
MCRootPath == <<Root>>

Bytes(n, v) == [a \in 0 .. n - 1 |-> v]
Minix(v) == [kind |-> "minix", text |-> Bytes(3, v), data |-> Bytes(4, v), tsize |-> 3,
             dsize |-> 4, bss |-> 2]

\* 65520 bytes of data, of which the last ten are not 0.
Large == [Minix(60) EXCEPT !.data = [a \in 65510 .. 65519 |-> 60], !.dsize = 65520]
V6(v) == [kind |-> "v6", text |-> Bytes(3, v), data |-> Bytes(2, v + 1), tsize |-> 3,
          dsize |-> 2, bss |-> 0]
Script == [NoFile EXCEPT !.text = Bytes(2, 35)]

\* Components: 4 /bin, 5 /prog, 6 /v6.., 7 /text, 9 /big.
MCFiles ==
  (<<5>> :> Minix(50)) @@ (<<Root, 5>> :> Minix(51)) @@ (<<Root, 4, 5>> :> Minix(52))
  @@ (<<Tmp, 5>> :> Minix(53)) @@ (<<Dots, 5>> :> Minix(54)) @@ (<<Root, Usr, 5>> :> Minix(55))
  @@ (<<Tmp, Tmp, 5>> :> Minix(56)) @@ (<<Root, 9>> :> Large) @@ (<<Root, 6>> :> V6(57))
  @@ (<<6>> :> V6(58)) @@ (<<7>> :> Script)

Paths == {<<5>>, <<4, 5>>, <<Tmp, 5>>, <<Usr, Tmp, 5>>, <<Usr, 5>>, <<4, Tmp, 5>>, <<Dots, 5>>,
          <<9>>, <<6>>, <<7>>}

Long == [k \in 1 .. 25 |-> 70]
Lists == {<<>>, <<<<>>>>, <<<<65>>>>, <<<<66, 67>>, <<>>>>, <<<<65>>, <<66, 67>>>>, <<<<65>>, Long>>,
          <<<<>>, <<66, 67>>, <<68, 69, 70>>>>}
Envs == {<<>>, <<<<72>>>>, <<<<72, 73>>, <<74>>>>}

MCCommandLines == {<<p>> \o l : p \in {<<5>>, <<6>>, <<7>>, <<4>>}, l \in Lists}

Request(path, argv, envp, message, frame) ==
  [path |-> path, argv |-> argv, envp |-> envp, message |-> message,
   pathAt |-> 40000, frame |-> frame]

\* Every path with two messages, and every list and environment with one path.
MCRequests ==
  {Request(p, <<<<65>>, Long>>, <<<<72>>>>, m, 300) : p \in Paths, m \in {2, 65505}}
  \cup {Request(<<5>>, l, e, at[1], at[2]) :
          l \in Lists, e \in Envs, at \in {<<30000, 300>>, <<65510, 50001>>, <<65516, 300>>}}

\* A V6 program's code at 40: each system call, and what an indirect one may find.
Direct == {<<\hcd, 7, n, 50, 0, 2, 0>> : n \in {0, 1, 4, 9}}
Indirect == {<<\hcd, 7, 4, 60, 0, 3, 0>>, <<\hcd, 7, 1>>, <<\h90, 7>>}
MCV6Calls ==
  {[memory |-> PlacedAt(d, 40) @@ PlacedAt(i, 50) @@ PlacedAt(<<81, 82, 83>>, 60), ax |-> 1, pc |-> 40] :
     d \in Direct, i \in Indirect}
=============================================================================
