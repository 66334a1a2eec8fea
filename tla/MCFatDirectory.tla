--------------------------- MODULE MCFatDirectory ---------------------------
EXTENDS FatDirectory

\* Short ones, as the firmware's, in two cases and with mixed capitals; long
\* ones with the same beginning, one of them at the limit of MaxLfn; one that
\* begins with the deletion mark.
FileNames == {<<"a", "b">>, <<"A", "B", " ">>, <<"a", "B">>,
              <<"a", "b", "b", "a", ".", "c">>, <<"a", "b", "b", "b", "b", ".", "c">>,
              <<"E5", "b">>, <<"a", "*">>}

\* A fresh directory, and one a PC has left with halves of long names.
Fresh == <<Volume, End, End, End>>
Orphans ==
  LET long == CreateName(<<"a", "b", "b", "a", ".", "c">>)
      sum == SumSfn(GenNumname(long.fn, 1)) IN
  <<FitLfn(long.lfn, 3, sum), FitLfn(long.lfn, 2, sum), FitLfn(long.lfn, 1, sum), Deleted>>
StartTables == {Fresh, Orphans}

ASSUME SumsAssumption == SumsTellApart
=============================================================================
