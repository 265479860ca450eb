SPECIFICATION Spec
CONSTANTS
  MaxFieldLen = 8
  ColumnLength = 4
  Rejected <- MCRejected
  Purposeless <- MCPurposeless
CHECK_DEADLOCK FALSE
INVARIANT StringHashedAlike
INVARIANT OriginsAsWritten
INVARIANT SegmentAgreed
