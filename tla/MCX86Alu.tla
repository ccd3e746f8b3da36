------------------------------ MODULE MCX86Alu ------------------------------
(***************************************************************************)
(* X86AluSweep on operands around every boundary of a byte and of a word,  *)
(* with every shift count and both carries.                                *)
(***************************************************************************)
EXTENDS X86AluSweep

Samples ==
  {0, 1, 2, 127, 128, 129, 254, 255, 256, 257, 384, 32511, 32640, 32767, 32768,
   32769, 32895, 65024, 65280, 65407, 65534, 65535}
=============================================================================
