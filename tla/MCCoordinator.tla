--------------------------- MODULE MCCoordinator ---------------------------
EXTENDS Coordinator

CONSTANTS good, other, gone, stump, old, stays

\* Well-formed files, a library listed twice, and entries that fail first,
\* last and alone.
ConfigFiles == {<<good, other>>, <<good, good>>, <<gone, good>>,
                <<other, stump, good>>, <<old, good>>, <<stays>>, <<gone>>, <<>>}

=============================================================================
