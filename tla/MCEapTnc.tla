------------------------------ MODULE MCEapTnc ------------------------------
(* Instances of EapTnc for TLC. *)
EXTENDS EapTnc

CONSTANTS a, b, c1, c2

PayloadsDef == {<<a>>, <<b, a, b>>, <<a, a, b, b, a>>}
PayloadsTwo == {<<a, b>>, <<b, a, b>>}
JunkFew == {Ack, Malformed, Fragment(FALSE, FALSE, 0, <<a>>),
            Fragment(TRUE, TRUE, 1, <<a>>)}
\* Every combination of the flags with data, and without.
JunkDef == {Malformed, Ack}
             \cup {Fragment(FALSE, m, 0, <<a>>) : m \in BOOLEAN}
             \cup {Fragment(TRUE, m, n, <<a>>) : m \in BOOLEAN, n \in {0, 2}}
=============================================================================
