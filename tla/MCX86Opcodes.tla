---------------------------- MODULE MCX86Opcodes ----------------------------
(***************************************************************************)
(* Every opcode with every ext and every kind of operand: memory through   *)
(* bx, bp+si and a direct address, memory at the last address, registers,  *)
(* and an addressing mode the interpreter refuses.  Also the code at the   *)
(* two ends of the text segment, and exec of each of these programs.       *)
(***************************************************************************)
EXTENDS X86Listed, MCPrograms, TLC

\* mod and r/m, and the displacement: [bx], [bp+si-2], [64], [65535], cl or cx,
\* ah or sp, and [bx+si+1].
Forms == {<<\h07>>, <<\h42, \hfe>>, <<\h06, 64, 0>>, <<\h06, \hff, \hff>>,
          <<\hc1>>, <<\hc4>>, <<\h40, 1>>}

\* The byte after a jump's opcode is its displacement: keep it forward, or the
\* program would loop through the middle of its own set-up.
Jumps == (\h70 .. \h7f) \cup {\he2, \he3, \heb}
Instructions ==
  {<<op>> \o [form EXCEPT ![1] = @ + 8 * ext] \o <<\h81, \h90>> :
     op \in Byte \ Jumps, ext \in 0 .. 7, form \in Forms}
  \cup {<<op, disp>> : op \in Jumps, disp \in {0, 1, 127}}

\* mov bx,64; mov ax,8001; mov cx,121; mov dx,3; mov si,5; mov bp,70; mov di,72; add ax,9000
Setup == <<\hbb, 64, 0, \hb8, 1, \h80, \hb9, \h21, 1, \hba, 3, 0, \hbe, 5, 0,
           \hbd, 70, 0, \hbf, 72, 0, \h05, 0, \h90>>
\* The word at SP is an address past the program, where a return ends it.
Cells == (64 :> 255) @@ (65 :> 127) @@ (66 :> 0) @@ (67 :> 0) @@ (73 :> 128)
  @@ (1 :> 0) @@ (2 :> 3)

\* mov bx,64; int 20 with a message that asks for write, and for exec of any program.
Calling == {Load(MovBX(64) \o <<\hcd, \h20>>, 66 :> mtype, 1) : mtype \in {4, 59}}

\* jmp short to 65534, where an instruction runs over the end of the text segment.
AtTheEnd ==
  {[text |-> Placed(<<\he9, \hfb, \hff>>, 0) @@ Placed(code, 65534),
    data |-> (0 :> \h90) @@ (1 :> 3), sp |-> 1] :
     code \in {<<\heb, 5>>, <<\h90, \he8>>, <<\h90, \heb>>, <<\h90, \h90>>, <<\h90, \hcd>>}}

MCLoads == {Load(Setup \o i, Cells, 1) : i \in Instructions} \cup AtTheEnd \cup Calling
MCOsStores == {NoCells}
=============================================================================
