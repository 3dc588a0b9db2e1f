------------------------------- MODULE PepGate -------------------------------
(***************************************************************************)
(* What the decision point of the VPN scenario promises about enforcement: *)
(* a session ends with at most one decision; the responsible enforcement   *)
(* point, if it can be reached, knows an ALLOW or a refusal before the     *)
(* client does; and nothing else changes what an enforcement point knows:  *)
(* neither isolation nor a session that ends without a decision.           *)
(***************************************************************************)
CONSTANTS Endpoint, Pep,
          Responsible   \* the enforcement point of each endpoint, or Nobody
CONSTANT Nobody

VARIABLES verdict,      \* what each enforcement point was told last
          reachable,    \* enforcement points that answer
          decided,      \* the decision of the endpoint's session
          heard         \* what the endpoint's client knows of it

gvars == <<verdict, reachable, decided, heard>>

Undecided == "none"
Flag(d) == IF d = "ACCESS_ALLOWED" THEN "Y" ELSE "N"

GInit == /\ verdict = [p \in Pep |-> [e \in Endpoint |-> "none"]]
         /\ reachable \in SUBSET Pep
         /\ decided = [e \in Endpoint |-> Undecided]
         /\ heard = [e \in Endpoint |-> Undecided]

Open(e) == /\ decided' = [decided EXCEPT ![e] = Undecided]
           /\ UNCHANGED <<verdict, reachable, heard>>

Told(e, d) == Responsible[e] \in reachable /\ d # "ACCESS_ISOLATED"

Decide(e, d) ==
    /\ decided[e] = Undecided
    /\ decided' = [decided EXCEPT ![e] = d]
    /\ verdict' = IF Told(e, d)
                  THEN [verdict EXCEPT ![Responsible[e]][e] = Flag(d)]
                  ELSE verdict
    /\ UNCHANGED <<reachable, heard>>

Hear(e) == /\ decided[e] # Undecided
           /\ heard' = [heard EXCEPT ![e] = decided[e]]
           /\ UNCHANGED <<verdict, reachable, decided>>

\* The client begins anew.
Forget(e) == /\ heard' = [heard EXCEPT ![e] = Undecided]
             /\ UNCHANGED <<verdict, reachable, decided>>

Network == reachable' \in SUBSET Pep /\ UNCHANGED <<verdict, decided, heard>>

GNext == \/ \E e \in Endpoint : Open(e) \/ Hear(e) \/ Forget(e)
         \/ \E e \in Endpoint, d \in {"ACCESS_ALLOWED", "ACCESS_ISOLATED", "ACCESS_NONE"} :
              Decide(e, d)
         \/ Network

GSpec == GInit /\ [][GNext]_gvars

=============================================================================
