---------------------------- MODULE MCX86Manual -----------------------------
(***************************************************************************)
(* Pairs of short programs around the instructions X86Manual speaks of.    *)
(***************************************************************************)
EXTENDS X86Manual, MCPrograms, TLC

Setup == MovCX(3) \o MovBX(64)
Snippets == {
  <<\hfd>>,                      \* std
  <<\hf3, \hcd, \h20>>,          \* rep int 20
  <<\ha4>>, <<\hf3, \ha4>>}      \* movsb, rep movsb

\* A write call at bx.
MCLoads == {Load(Setup \o a \o b, 66 :> 4, 256) : a \in Snippets, b \in Snippets}
MCOsStores == {NoCells}
=============================================================================
