SPECIFICATION FairSpec
CONSTANTS
  m1 = m1
  m2 = m2
  None = None
  Message <- MCMessage
  MaxMsgs = 2
  MaxTicks = 2
INVARIANTS SlotExclusive
PROPERTIES ImplementsFifo SendReturns
