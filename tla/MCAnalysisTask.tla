--------------------------- MODULE MCAnalysisTask ---------------------------
(* Captures and sessions small enough for TLC, with every kind of stream.  *)
EXTENDS AnalysisTask

MCCaptures == {<<>>, <<"plain", "wav">>, <<"video", "audio">>}

MCSessions == {[tracks |-> <<>>, sample |-> TRUE],
               [tracks |-> <<"g711", "packed">>, sample |-> FALSE],
               [tracks |-> <<"packed">>, sample |-> TRUE]}
=============================================================================
