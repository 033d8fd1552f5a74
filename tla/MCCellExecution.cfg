\* Three events of any kind, foreign messages, one failed request.
CONSTANTS
  MaxOutputs = 3
  MaxBytes = 5
  Event <- AllEvents
  MaxEvents = 3
  MaxLag = 2
  MaxForeign = 1
  MaxFaults = 1
SPECIFICATION FairSpec
CHECK_DEADLOCK FALSE
INVARIANTS OutputInv OutputsFollowMessages
 
