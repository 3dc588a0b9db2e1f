---------------------------- MODULE ExamplePair ----------------------------
(***************************************************************************)
(* The example IMC and IMV: two messages of the client, then ALLOW.        *)
(***************************************************************************)
EXTENDS ImUnit, Naturals

Hello == [kind |-> "hello"]

\* ExampleIMC: one message at the start, one for every message received.
NewImc == [kind |-> "example"]
ImcBegin(st) == {Answer(st, <<Hello>>)}
ImcReceive(st, m) == {Answer(st, <<Hello>>)}

\* ExampleIMV: rec is AbstractIMV::actionRecommendation.
NewImv == [rec |-> NoRec]

ImvReceive(st, round, m) ==
    IF round < 1 THEN {Answer(st, <<Hello>>)}
    ELSE {Answer([st EXCEPT !.rec = "ALLOW"], <<>>)}

=============================================================================
