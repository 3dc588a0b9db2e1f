---------------------------- MODULE MCTncsImunit ----------------------------
(* Instances of TncsImunit for TLC. *)
EXTENDS TncsImunit

CONSTANTS m1

HandlesDef == [i \in IMV |-> {m1}]
LacksNothing == [i \in IMV |-> {}]
BatchesDef == {<<m1>>}
=============================================================================
