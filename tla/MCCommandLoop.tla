---------------------------- MODULE MCCommandLoop ----------------------------
EXTENDS CommandLoop

W(letter, value) == [f |-> letter, v |-> value]
A == W("name", 1)
B == W("name", 2)

\* The last but one does not fit the buffer and is cut before its file name;
\* 40000 does not fit S.
MCHostLines ==
  { <<W("M", 25), LF>>, <<W("M", 23), A, LF>>, <<W("M", 24), LF>>,
    <<W("M", 26), W("S", 40000), LF>>,
    <<W("M", 28), B, LF>>, <<W("M", 29), LF>>,
    <<W("G", 91), W(";", 0), B, LF>>,
    <<W("G", 1), W("X", 1), W("*", 1), LF>>, <<W("G", 1), W("X", 2), W("*", 2), LF>>,
    <<W("S", 3), W("(", 0), W(")", 0), W("M", 23), A, LF>>, <<LF>> }

\* The first line is stored as G20 and ends with CR and LF, the second does not
\* fit f_gets, the last one, which has no end, is a jump back.
Printed == <<W("G", 276), CR, LF, W("G", 1), W("X", 1), W("X", 2), W("S", 3),
             LF, W("M", 26), W("S", 3)>>

MCInitialCard == [n \in {0, 1, 2} |-> IF n = 1 THEN Printed ELSE Absent]
=============================================================================
