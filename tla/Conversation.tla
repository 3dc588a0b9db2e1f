---------------------------- MODULE Conversation ----------------------------
(***************************************************************************)
(* What the numbering of TNCCS batches promises: in each handshake client  *)
(* and server speak by turns, the client with the odd and the server with  *)
(* the even numbers, none left out and none twice; a conversation that is  *)
(* over stays so until the next handshake.                                 *)
(***************************************************************************)
EXTENDS Naturals, Sequences

VARIABLES talk,     \* numbers of the batches of this handshake, as they came
          open      \* the handshake goes on

cvars == <<talk, open>>

CInit == talk = <<>> /\ open = FALSE

Start == talk' = <<>> /\ open' = TRUE

\* The client's batch is taken and answered.
Exchange == /\ open
            /\ talk' = talk \o <<Len(talk) + 1, Len(talk) + 2>>
            /\ open' \in BOOLEAN

\* It is refused, or taken and not answered.
Break == /\ open /\ open' = FALSE
         /\ talk' \in {talk, Append(talk, Len(talk) + 1)}

CNext == Start \/ Exchange \/ Break

CSpec == CInit /\ [][CNext]_cvars

=============================================================================
