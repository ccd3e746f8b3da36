------------------------------ MODULE X86Memory ------------------------------
(***************************************************************************)
(* The 64 KB of a segment: a function on the addresses written so far;     *)
(* every other address holds the 0 of a memset.                            *)
(***************************************************************************)
EXTENDS X86Words

IsMemory(m) == DOMAIN m \subseteq Word /\ \A a \in DOMAIN m : m[a] \in Byte

At(m, a) == IF a \in DOMAIN m THEN m[a] ELSE 0
Store(m, a, v) == [b \in DOMAIN m \cup {a} |-> IF b = a THEN v ELSE m[b]]
StoreWord(m, a, v) == Store(Store(m, a, LowByte(v)), a + 1, HighByte(v))
StoreAll(m, n) == [b \in DOMAIN m \cup DOMAIN n |-> IF b \in DOMAIN n THEN n[b] ELSE m[b]]
=============================================================================
