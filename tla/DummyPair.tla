----------------------------- MODULE DummyPair -----------------------------
(***************************************************************************)
(* The dummy IMC and IMV: the client says which access it wants, the       *)
(* server's policy how many messages it has to say it in.                  *)
(*                                                                         *)
(* host is the word in dummyimc.file ("other" for a missing file or an     *)
(* unknown word), policy the number in dummyimv.policy, 0 for a missing    *)
(* file or a line that is no number.                                       *)
(***************************************************************************)
EXTENDS ImUnit, Integers

Word == {"allow", "isolate", "none"}

RecOf(action, old) == CASE action = "allow"   -> "ALLOW"
                        [] action = "isolate" -> "ISOLATE"
                        [] action = "none"    -> "NO_ACCESS"
                        [] OTHER              -> old

Say(action) == <<[kind |-> "action", action |-> action]>>

\* DummyIMC: localFileAction; the count is only part of the message's text.
NewImc == [action |-> ""]

ImcBegin(st, host) ==
    LET action == IF host \in Word THEN host ELSE "isolate"
    IN {Answer([action |-> action], Say(action))}

ImcReceive(st, m) == {Answer(st, Say(st.action))}

\* DummyIMV: msgCountCur and msgCountMax besides the recommendation.
NewImv == [rec |-> NoRec, cur |-> 0, max |-> 0]

ImvHandshake(st, policy) ==
    {Answer([st EXCEPT !.cur = 0, !.max = policy], <<>>)}

\* Any other message than "... = <action>" leaves the recommendation alone;
\* at the limit the IMV speaks, although it may still be sending.
ImvReceive(st, m) ==
    LET rec  == RecOf(m.action, st.rec)
        more == st.cur < st.max
        cur  == IF more THEN st.cur + 1 ELSE st.cur
    IN {[Answer([st EXCEPT !.rec = rec, !.cur = cur],
                IF more THEN <<[kind |-> "ack"]>> ELSE <<>>)
           EXCEPT !.give = IF cur = st.max THEN rec ELSE Nothing]}

=============================================================================
