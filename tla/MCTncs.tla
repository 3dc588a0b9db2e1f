------------------------------- MODULE MCTncs -------------------------------
(* Instances of Tncs for TLC. *)
EXTENDS Tncs

CONSTANTS m1, m2

\* IMV 0 takes m1, every other IMV takes both types.
HandlesDef == [i \in IMV |-> IF i = 0 THEN {m1} ELSE {m1, m2}]
LacksNothing == [i \in IMV |-> {}]
\* The library of the last IMV has no TNC_IMV_ReceiveMessage.
LacksReceive == [i \in IMV |-> IF i = NumIMV - 1 THEN {"receive"} ELSE {}]
BatchesTwo == {<<>>, <<m1, m2>>}
BatchesDef == {<<>>, <<m1>>, <<m1, m2>>}
=============================================================================
