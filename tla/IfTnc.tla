------------------------------- MODULE IfTnc -------------------------------
(***************************************************************************)
(* The values of the TNC interfaces (IF-IMV, IF-TNCCS) that the server's   *)
(* components exchange: action recommendations, connection states, and     *)
(* how one becomes the other.                                              *)
(***************************************************************************)

\* TNC_IMV_Action_Recommendation
NoRec == "NO_RECOMMENDATION"
Rec == {"ALLOW", "ISOLATE", "NO_ACCESS", NoRec}

\* TNC_ConnectionState, as far as a Connection object holds it
Decided == {"ACCESS_ALLOWED", "ACCESS_ISOLATED", "ACCESS_NONE"}
ConState == {"CREATE", "HANDSHAKE"} \cup Decided

\* Faulty variant: the default branch reports the wrong state.
StateOfWrongDefault(r) == CASE r = "ALLOW"   -> "ACCESS_ALLOWED"
                            [] r = "ISOLATE" -> "ACCESS_ISOLATED"
                            [] OTHER         -> "DELETE"

\* The switch at the end of TNC1Protocol::processTNCCSData.
StateOf(r) == CASE r = "ALLOW"   -> "ACCESS_ALLOWED"
                [] r = "ISOLATE" -> "ACCESS_ISOLATED"
                [] OTHER         -> "ACCESS_NONE"

\* What the local policy promises: access only if every voice grants it,
\* isolation if every voice grants at least that, no access otherwise.
PolicyOf(voice) ==
    IF \A i \in DOMAIN voice : voice[i] = "ALLOW" THEN "ALLOW"
    ELSE IF \A i \in DOMAIN voice : voice[i] \in {"ALLOW", "ISOLATE"}
         THEN "ISOLATE"
         ELSE "NO_ACCESS"

=============================================================================
