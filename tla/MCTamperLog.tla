----------------------------- MODULE MCTamperLog -----------------------------
\* Small instances of TamperLog.  p1 opens the log with open_signed, p2 with open.
EXTENDS TamperLog

CONSTANTS p1, p2

MCProc == {p1, p2}

MCSigned == {p1}

=============================================================================
