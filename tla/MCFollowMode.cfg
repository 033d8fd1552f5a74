\* The page has to arrive at the driver's last view.
CONSTANTS
  Other = {d1, d2}
  Path = {p1, p2}
  Anchor = p1
  Me = Me
  None = None
  MaxSequence = 4
  MaxClicks = 3
  MaxOpens = 1
  MaxFails = 2
SPECIFICATION FairSpec
CHECK_DEADLOCK FALSE
 
PROPERTIES NeverBack ArrivesAtView
