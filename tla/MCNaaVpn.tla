------------------------------ MODULE MCNaaVpn ------------------------------
EXTENDS NaaVpn

\* Addresses of four bits.  The client 5 is in two networks, 6 in none: of
\* the two entries that could be meant to hold it, one is too narrow and the
\* other has no bits.
Networks == <<[pep |-> "pep", net |-> 4, bits |-> 3],
              [pep |-> "pep", net |-> 0, bits |-> 0],
              [pep |-> "pep", net |-> 5, bits |-> 4]>>

=============================================================================
