------------------------------- MODULE ImUnit -------------------------------
(***************************************************************************)
(* What the measurement functions of the repository have in common: the    *)
(* IMCs and IMVs derived from AbstractIMC and AbstractIMV.  A function's   *)
(* handlers are operators from its state and a call's arguments to the set *)
(* of answers the call may have.                                           *)
(***************************************************************************)
EXTENDS IfTnc, Sequences

Nothing == "nothing"      \* no recommendation was provided, nothing is stored

\* A nonce begins with the handshake it is drawn in, and none is drawn in the 0th:
\* what a member holds to which none was assigned.
Undrawn == <<0>>

\* An answer: the state after the call, the messages sent through TNCC or
\* TNCS, the recommendation passed to TNCS::provideRecommendation, the result,
\* and whether something outside the protocol failed (entropy, a TPM).
Answer(st, out) == [st |-> st, out |-> out, give |-> Nothing,
                    res |-> "SUCCESS", broken |-> FALSE]

Voice(st, rec) == [Answer(st, <<>>) EXCEPT !.give = rec]

Failure(st, res) == [Answer(st, <<>>) EXCEPT !.res = res]

Broken(st) == [Answer(st, <<>>) EXCEPT !.broken = TRUE]

=============================================================================
