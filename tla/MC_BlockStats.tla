----------------------------- MODULE MC_BlockStats -----------------------------
EXTENDS BlockStats

CONSTANTS nil

\* An explicit range, a negative start, and a start after the end.
MC_StartChoices == {-2, 1, 3}

\* nil, 0 (latest), and an explicit end.
MC_EndChoices == {nil, 0, 2, 3}

MC_Latests == {3}

\* Blocks one or two seconds apart, empty or not, two base fees.
MC_TimeSteps == {1, 2}
MC_TxCounts == {0, 4}
MC_BaseFees == {1, 3}
================================================================================
