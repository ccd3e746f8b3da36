---------------------------- MODULE X86AluSweep -----------------------------
(***************************************************************************)
(* The rules of X86AluRules for two operands, the flags before and a count *)
(* of places, one after the other.                                         *)
(***************************************************************************)
EXTENDS X86AluRules

CONSTANT Operands  \* the operands tried

ASSUME OperandsAssumption == Operands \subseteq Word

VARIABLES left, right, count, flags
vars == <<left, right, count, flags>>

Init ==
  /\ left \in Operands /\ right \in Operands
  /\ count = 0
  /\ flags \in [z : {FALSE}, s : {FALSE}, o : BOOLEAN, c : BOOLEAN]

\* The count runs through 0 .. 31 and starts again.
Next == count' = (count + 1) % 32 /\ UNCHANGED <<left, right, flags>>
Spec == Init /\ [][Next]_vars
-----------------------------------------------------------------------------
\* Each conditional jump after a comparison takes the relation it is named for:
\* the flags handed to setZSOC by cmp and the cases 72 .. 7f fit each other.
CompareRight ==
  \A m \in {256, 65536}, cc \in Conditions :
    Holds(cc, Sub(left % m, right % m, m)) = Relation(cc, left % m, right % m, m)

\* The chains of byte instructions that compiled code uses for longer numbers leave
\* what the word instructions of add, sub, shl and shr leave, but for Z, which the last
\* byte sets alone, S of the shifts, O of shr, and O of sub/sbb where sbb is misled.
WordsByBytesRight == WordsByBytes(left, right, flags)

\* A word shift by CL leaves value, Z, S and C of CL shifts by one, but for C of sar
\* when a negative word is shifted by 17 places or more.
ShiftByCountRight == ShiftByCount(left, count, flags)

\* Division and multiplication undo each other.
DivisionsRight == \A d \in Operands : DivisionRight(left, right, d)
=============================================================================
