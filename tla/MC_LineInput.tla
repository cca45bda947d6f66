---------------------------- MODULE MC_LineInput -----------------------------
EXTENDS LineInput

CONSTANTS a, b, Nul, Eof  \* model values

MC_Chars == {a, b}

\* unlimited, one entry, two entries
MC_Sizes == {0, 1, 2}

\* an empty history and one of three entries of different lengths, so a
\* recall can shorten the line under the cursor
MC_Histories == {<<>>, <<<<a, b>>, <<b>>, <<>>>>}
=============================================================================
