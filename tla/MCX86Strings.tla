---------------------------- MODULE MCX86Strings ----------------------------
(***************************************************************************)
(* Every string instruction, plain and under both prefixes, up and down,   *)
(* for counts 0 .. 3 and for operands that are apart, adjacent,            *)
(* overlapping and at the ends of memory, over memory that agrees, differs *)
(* at once and differs later.  And programs of three instructions around   *)
(* int 20, with and without repeat prefixes, for which the operating       *)
(* system replies as it likes, and exec brings in any other program.  All  *)
(* of them are run with a trace.                                           *)
(***************************************************************************)
EXTENDS X86Watch, MCPrograms, TLC

Prefixes == {<<>>, <<\hf2>>, <<\hf3>>}
Directions == {<<>>, <<\hfd>>}
Counts == 0 .. 3
Places == {<<16, 32>>, <<16, 17>>, <<17, 16>>, <<65534, 32>>, <<16, 1>>}

\* AL is 7; the runs of equal bytes at 16 and 32 end at different lengths.
Cells == {
  (16 :> 7) @@ (17 :> 7) @@ (18 :> 7) @@ (32 :> 7) @@ (33 :> 7) @@ (34 :> 9),
  (16 :> 1) @@ (17 :> 2) @@ (18 :> 200) @@ (32 :> 5) @@ (33 :> 2) @@ (34 :> 7)
    @@ (15 :> 4) @@ (31 :> 4) @@ (1 :> 7)}

Code(prefix, direction, count, place, op) ==
  MovCX(count) \o MovSI(place[1]) \o MovDI(place[2]) \o <<\hb0, 7>>
  \o direction \o prefix \o <<op>>

\* repne scasb for a byte that is nowhere in memory: only the count ends it.
Nowhere == MovCX(3) \o <<\hb0, 77, \hf2, \hae>>

StringLoads ==
  {Load(Code(p, d, n, at, op), cells, 256) :
     p \in Prefixes, d \in Directions, n \in Counts, at \in Places,
     op \in StringOps, cells \in Cells}
  \cup {Load(Nowhere, NoCells, 256)}
-----------------------------------------------------------------------------
\* The messages the programs send lie at these addresses; bx starts at the first.
Messages == (66 :> 4) @@ (82 :> 59) @@ (98 :> 1) @@ (114 :> 9)

Snippets == {
  <<\hcd, \h20>>,                     \* int 20: write
  <<\hf3, \hcd, \h20>>,               \* rep int 20
  <<\hf2, \hb3, 96, \hcd, \h20>>,     \* repne mov bl,96; int 20: exit
  <<\hb3, 112, \hcd, \h20>>,          \* mov bl,112; int 20: no such call
  <<\hb7, \hff, \hb3, \hfe, \hcd, 1>>, \* a message that does not lie in memory
  <<\hf3, \ha4>>,                     \* rep movsb
  <<\ha4>>,                           \* movsb
  <<\hf2, \ha6>>,                     \* repne cmpsb
  <<\hf3, \hf2, \hae>>,               \* rep repne scasb
  <<\hfd>>}                           \* std

Setup == MovBX(64) \o MovCX(2) \o MovSI(16) \o MovDI(32)
Lasts == {<<\ha4>>, <<\hf2, \ha6>>, <<\hcd, \h20>>}
Programs == {a \o b \o c : a \in Snippets, b \in Snippets, c \in Lasts}
\* mov bl,80; rep int 20: exec, of any program here.
            \cup {<<\hb3, 80, \hf3, \hcd, \h20>>}

InterruptLoads == {Load(Setup \o p, Messages, 256) : p \in Programs}
-----------------------------------------------------------------------------
MCLoads == StringLoads \cup InterruptLoads
MCOsStores == {NoCells, 16 :> 5}
=============================================================================
