\* The process may end.
CHECK_DEADLOCK FALSE
SPECIFICATION Spec
INVARIANT DialInv
INVARIANT ConnectedUnlessLate
PROPERTY DialingEnds
PROPERTY NextReportAfterThis
PROPERTY ReportEnds
