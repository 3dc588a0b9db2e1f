--------------------------- MODULE AccessDecision ---------------------------
(***************************************************************************)
(* What a TNC server promises about access: a handshake forgets what was   *)
(* said before it, integrity measurement verifiers (IMVs) voice            *)
(* recommendations, and the handshake is decided at most once: by the      *)
(* local policy over the voices of this very handshake, by a policy        *)
(* decision point that is asked only about named users, or with no access  *)
(* when the protocol fails.                                                *)
(***************************************************************************)
EXTENDS IfTnc

CONSTANTS Conn, IMV

VARIABLES state,    \* connection -> what the network may do with it
          voice,    \* <<connection, IMV>> -> recommendation of this handshake
          named     \* connections whose user name is known

avars == <<state, voice, named>>

AInit == /\ state = [c \in Conn |-> "CREATE"]
         /\ voice = [p \in Conn \X IMV |-> NoRec]
         /\ named = {}

Voices(c) == [i \in IMV |-> voice[<<c, i>>]]

Begin(c) == /\ state' = [state EXCEPT ![c] = "HANDSHAKE"]
            /\ voice' = [p \in Conn \X IMV |->
                           IF p[1] = c THEN NoRec ELSE voice[p]]
            /\ UNCHANGED named

Speak(c, i) == /\ \E r \in Rec : voice' = [voice EXCEPT ![<<c, i>>] = r]
               /\ UNCHANGED <<state, named>>

Name(c) == /\ named' = named \cup {c}
           /\ UNCHANGED <<state, voice>>

Settle(c, s) == /\ state[c] = "HANDSHAKE"
                /\ state' = [state EXCEPT ![c] = s]
                /\ UNCHANGED <<voice, named>>

DecideByPolicy(c) == Settle(c, StateOf(PolicyOf(Voices(c))))
DecideByPdp(c) == c \in named /\ \E s \in Decided : Settle(c, s)
Refuse(c) == Settle(c, "ACCESS_NONE")

ANext == \E c \in Conn : \/ Begin(c)
                         \/ Name(c)
                         \/ DecideByPolicy(c)
                         \/ DecideByPdp(c)
                         \/ Refuse(c)
                         \/ \E i \in IMV : Speak(c, i)

ASpec == AInit /\ [][ANext]_avars

=============================================================================
