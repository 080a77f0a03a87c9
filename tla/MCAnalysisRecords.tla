------------------------- MODULE MCAnalysisRecords -------------------------
EXTENDS AnalysisRecords, TLC

\* A path, a diamond, a loop of one, of two and of three nodes, and a loop that
\* is reached from outside.
MCGraphEdits ==
  {<< <<"a", "b">>, <<"b", "c">> >>,
   << <<"a", "b">>, <<"a", "c">>, <<"b", "d">>, <<"c", "d">> >>,
   << <<"a", "a">> >>,
   << <<"a", "b">>, <<"b", "a">> >>,
   << <<"b", "c">>, <<"a", "b">>, <<"c", "a">> >>,
   << <<"c", "b">>, <<"a", "b">>, <<"b", "a">>, <<"c", "d">> >>}

Symmetric == Permutations(Requests)
=============================================================================
