SPECIFICATION Spec
CONSTANTS
  MaxMsgs = 2
  Late = 1
  MaxFaults = 1
INVARIANT ReportedWasAccepted
