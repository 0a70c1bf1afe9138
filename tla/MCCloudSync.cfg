SPECIFICATION Spec

CONSTANT Scenarios <- AllScenarios

CHECK_DEADLOCK FALSE
INVARIANT TypeOK
PROPERTY RequestsCounted
PROPERTY UnsentStaysPending
