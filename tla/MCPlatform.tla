----------------------------- MODULE MCPlatform -----------------------------
EXTENDS Platform, TLC
MCSigner == [k1 |-> "t2", k2 |-> "any"]
MCPromptTokens == [a |-> 2, b |-> 9, settings |-> 1]
MCChars == {" ", "E", "0", "a", "m", "n", "o", "p", "q", "r", "s"}
Msg(r, t, c) == [role |-> r, text |-> t, calls |-> c]
MCHistories ==
  {<<Msg("system", <<"s">>, 0)>>,
   <<Msg("system", <<"s">>, 0), Msg("user", <<"q", " ", " ", "r">>, 0)>>,
   <<Msg("system", <<"s">>, 0), Msg("user", <<"q">>, 0), Msg("assistant", <<"a">>, 1)>>,
   <<Msg("user", <<"q">>, 0), Msg("assistant", <<>>, 0), Msg("user", <<"r">>, 0)>>}
MCMockText == <<"m", "n", " ", "o">>
MCAfterTool == <<"p", " ", "q">>
MCCatalogue == <<{1, 2, 3, 4, 5, 6, 7, 8}, {2, 3, 9}, {3, 9}>>
MCQuestions == {{0}, {1, 2}, {3, 9, 0}, {8, 11, 12, 13, 14, 15, 16}}
MCThreshold == <<3, 20>>
\* Requests and bearers are interchangeable: no definition tells two of them apart.
MCSymmetry == Permutations(Callers) \cup Permutations(Bearers)
=============================================================================
