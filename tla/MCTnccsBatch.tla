---------------------------- MODULE MCTnccsBatch ----------------------------
EXTENDS TnccsBatch

CONSTANTS any, v, w, s, t

\* One IMV reported one type, the other all of a vendor and two more.
TypesReported == <<{<<v, s>>}, {<<v, any>>, <<any, t>>, <<w, s>>}>>

Doc(tncc, imc) == [tncc |-> tncc, imc |-> imc]

Contents == {Doc(<<>>, <<<<v, s>>, <<w, t>>>>), Doc(<<"base64", "xml">>, <<>>)}

StrangeBatch(id, to, tncc, imc) ==
    [valid |-> TRUE, id |-> id, recipient |-> to, tncc |-> tncc, imc |-> imc]

StrangeDocuments ==
    {[StrangeBatch(1, "TNCS", <<>>, <<>>) EXCEPT !.valid = FALSE],
     StrangeBatch(3, "TNCC", <<>>, <<<<v, s>>>>),
     StrangeBatch(3, "TNCS", <<>>, <<<<v, s>>, <<w, any>>>>),
     StrangeBatch(3, "TNCS", <<"empty">>, <<<<v, s>>>>),
     StrangeBatch(5, "TNCS", <<>>, <<<<v, s>>>>)}

Words == {<<>>, <<<<v, s>>>>, <<<<w, t>>, <<v, any>>>>}

=============================================================================
