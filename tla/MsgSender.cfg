SPECIFICATION Spec
CONSTANTS
  MaxMsgs = 2
  Late = 0
  MaxFaults = 2
INVARIANTS TypeOK ReportedWasAccepted
PROPERTIES SentUnlessUnconfigured LampRecovers
