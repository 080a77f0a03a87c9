---------------------------- MODULE MCAgentWork ----------------------------
EXTENDS AgentWork

Number(n, unique) == Column(<<n>>, "number", unique)
Flag(n, minor) == [Number(n, 2) EXCEPT !.minor = minor, !.zeroOne = TRUE]
Gaps(c, tenths) == [c EXCEPT !.missing = tenths]
Word(n, unique) == Column(<<n>>, "string", unique)
Rows(rows, cols) == [rows |-> rows, duplicates |-> 0, cols |-> cols]

\* Treatment t, outcome y and two more columns, of the kinds that are told apart.
Plain == Rows(600, <<Flag("t", 50), Number("y", 60), Gaps(Number("a", 60), 4), Word("b", 3)>>)
Coded == Rows(600, <<Word("t", 2), Gaps(Number("y", 60), 5), Gaps(Word("a", 30), 4),
                     Number("c", 1)>>)
Small == Rows(250, <<Flag("t", 10), Number("y", 60), Column(<<"d">>, "date", 60)>>)
Empty == Rows(600, <<Gaps(Number("c", 60), 9), Word("a", 3)>>)
Still == Rows(600, <<Number("t", 1), Number("y", 1)>>)

Auto == [impute |-> TRUE, outliers |-> "iqr", encoding |-> "auto", engineer |-> TRUE,
         scale |-> TRUE]

Job(t, pp, prep, override, bucket, pair) ==
  [table |-> t, pp |-> pp, prep |-> prep, override |-> override, bucket |-> bucket,
   pair |-> pair, wanted |-> {"discovery", "treatment"}, extra |-> << >>]

MCAsked ==
  [plain    |-> [Job(Plain, Auto, TRUE, TRUE, TRUE, << >>) EXCEPT !.wanted = {"treatment"}],
   coded    |-> [Job(Coded, Auto, TRUE, TRUE, TRUE, << >>) EXCEPT !.wanted = {"treatment"}],
   small    |-> Job(Small, Auto, TRUE, TRUE, TRUE, << >>),
   empty    |-> Job(Empty, Auto, TRUE, TRUE, TRUE, << >>),
   still    |-> [Job(Still, Auto, TRUE, TRUE, TRUE, << >>) EXCEPT !.wanted = {"discovery"}],
   raw      |-> [Job(Plain, Auto, FALSE, FALSE, TRUE, <<"y", "y">>)
                   EXCEPT !.extra = <<"mediation">>],
   nobucket |-> Job(Plain, Auto, TRUE, FALSE, FALSE, << >>)]

MCLlmAnswers == [llm |-> [treatment |-> <<"t">>, outcome |-> <<"t">>, confounder |-> <<"a">>]]

MCTools == <<"pc", "fci">>
=============================================================================
